---- MODULE Spec2Model ----
(***************************************************************************)
(* A model of the Parcl v3 API client (src/src/lib.rs), its wire payloads  *)
(* (src/src/request.rs), its response shapes (src/src/response.rs) and its *)
(* field codecs (src/src/serde_utils).                                     *)
(*                                                                         *)
(* Text is a sequence of one-character strings.  An unsigned integer of    *)
(* width w is a sequence of w bytes, least significant first, so that the  *)
(* declared width and overflow are those of the program.  An address       *)
(* (Pubkey) is a sequence of PUBKEY_BYTES bytes in array order.            *)
(***************************************************************************)
EXTENDS Integers, Sequences, FiniteSets, TLC

\* ------------------------------------------------------------------------
\* Results of fallible functions
\* ------------------------------------------------------------------------

Ok(v) == [ok |-> TRUE, v |-> v]

Err(e) == [ok |-> FALSE, e |-> e]

\* ------------------------------------------------------------------------
\* Widths and alphabets
\* ------------------------------------------------------------------------

\* u16, u32 (MarginAccountId, MarketId) and u64 (ExchangeId) in bytes
U16Bytes == 2

U32Bytes == 4

U64Bytes == 8

\* size of a Pubkey in bytes, and the longest base58 text of one
PUBKEY_BYTES == 32

MAX_BASE58_LEN == 44

DecDigits == <<"0", "1", "2", "3", "4", "5", "6", "7", "8", "9">>

B58Alphabet ==
  <<"1", "2", "3", "4", "5", "6", "7", "8", "9", "A", "B", "C", "D", "E",
    "F", "G", "H", "J", "K", "L", "M", "N", "P", "Q", "R", "S", "T", "U",
    "V", "W", "X", "Y", "Z", "a", "b", "c", "d", "e", "f", "g", "h", "i",
    "j", "k", "m", "n", "o", "p", "q", "r", "s", "t", "u", "v", "w", "x",
    "y", "z">>

\* the digit value of character c in an alphabet, -1 when it is no digit
DigitValue(alphabet, c) ==
  IF \E i \in 1..Len(alphabet) : alphabet[i] = c
  THEN (CHOOSE i \in 1..Len(alphabet) : alphabet[i] = c) - 1
  ELSE -1

Reverse(s) == [i \in 1..Len(s) |-> s[Len(s) + 1 - i]]

Zeros(n) == [i \in 1..n |-> 0]

IsZero(bs) == \A i \in 1..Len(bs) : bs[i] = 0

\* ------------------------------------------------------------------------
\* Fixed-width arithmetic on byte sequences
\* ------------------------------------------------------------------------

RECURSIVE MulAddLE(_, _, _)
\* bs * m + c on little-endian bytes; the last element of the result is the
\* carry out of the top byte
MulAddLE(bs, m, c) ==
  IF bs = <<>> THEN <<c>>
  ELSE LET t == Head(bs) * m + c
       IN  <<t % 256>> \o MulAddLE(Tail(bs), m, t \div 256)

\* wrapping_mul, which checked_mul is not: the product cut to the width
WrappingMul(bs, m) == Ok(SubSeq(MulAddLE(bs, m, 0), 1, Len(bs)))

\* checked_mul: fails when the product does not fit the width
CheckedMul(bs, m) ==
  LET r == MulAddLE(bs, m, 0)
  IN  IF r[Len(r)] # 0 THEN Err("PosOverflow") ELSE Ok(SubSeq(r, 1, Len(bs)))

\* wrapping_add of a small value: the sum is cut to the width
WrappingAdd(bs, a) == Ok(SubSeq(MulAddLE(bs, 1, a), 1, Len(bs)))

\* checked_add of a small value: fails when the sum does not fit the width
CheckedAdd(bs, a) ==
  LET r == MulAddLE(bs, 1, a)
  IN  IF r[Len(r)] # 0 THEN Err("PosOverflow") ELSE Ok(SubSeq(r, 1, Len(bs)))

RECURSIVE DivModBE(_, _, _)
\* big-endian bytes divided by d with incoming remainder r: the quotient's
\* bytes followed by the remainder
DivModBE(bs, d, r) ==
  IF bs = <<>> THEN <<r>>
  ELSE LET t == r * 256 + Head(bs)
       IN  <<t \div d>> \o DivModBE(Tail(bs), d, t % d)

RECURSIVE DigitsOf(_, _)
\* the digits of a big-endian number in a radix, most significant first;
\* empty for zero
DigitsOf(bs, radix) ==
  IF IsZero(bs) THEN <<>>
  ELSE LET qr == DivModBE(bs, radix, 0)
       IN  DigitsOf(SubSeq(qr, 1, Len(bs)), radix) \o <<qr[Len(qr)]>>

\* ------------------------------------------------------------------------
\* Integer text: ToString and FromStr of the unsigned integer types
\* ------------------------------------------------------------------------

\* u16/u32/u64::to_string
UnsignedToString(n) ==
  LET ds == DigitsOf(Reverse(n), 10)
  IN  IF ds = <<>> THEN <<"0">>
      ELSE [i \in 1..Len(ds) |-> DecDigits[ds[i] + 1]]

RECURSIVE ParseDigits(_, _)
\* the digit loop of from_str_radix: acc * 10 + digit, checked at each step
ParseDigits(ds, acc) ==
  IF ds = <<>> THEN Ok(acc)
  ELSE LET x == DigitValue(DecDigits, Head(ds))
           mul == CheckedMul(acc, 10)
       IN  IF x = -1 THEN Err("InvalidDigit")
           ELSE IF ~mul.ok THEN Err("PosOverflow")
           ELSE LET add == CheckedAdd(mul.v, x)
                IN  IF ~add.ok THEN Err("PosOverflow")
                    ELSE ParseDigits(Tail(ds), add.v)

\* <uN as FromStr>::from_str for a width of w bytes
ParseUnsigned(s, w) ==
  IF s = <<>> THEN Err("Empty")
  ELSE IF Len(s) = 1 /\ s[1] \in {"+", "-"} THEN Err("InvalidDigit")
  ELSE ParseDigits(IF s[1] = "+" THEN Tail(s) ELSE s, Zeros(w))

\* ------------------------------------------------------------------------
\* Address text: Pubkey::to_string and Pubkey::from_str (base58)
\* ------------------------------------------------------------------------

RECURSIVE LeadingCount(_, _)
LeadingCount(s, x) ==
  IF s = <<>> \/ Head(s) # x THEN 0 ELSE 1 + LeadingCount(Tail(s), x)

\* base58 of the number alone, which Pubkey::to_string is not: the leading
\* zero bytes are not written
PubkeyToStringWithoutLeadingOnes(k) ==
  LET ds == DigitsOf(k, 58)
  IN  [i \in 1..Len(ds) |-> B58Alphabet[ds[i] + 1]]

PubkeyToString(k) ==
  LET z  == LeadingCount(k, 0)
      ds == DigitsOf(k, 58)
  IN  [i \in 1..z |-> "1"] \o [i \in 1..Len(ds) |-> B58Alphabet[ds[i] + 1]]

RECURSIVE Bs58Accumulate(_, _)
\* the number spelled by base58 digits, as little-endian bytes without
\* leading zero bytes
Bs58Accumulate(s, acc) ==
  IF s = <<>> THEN acc
  ELSE LET r == MulAddLE(acc, 58, DigitValue(B58Alphabet, Head(s)))
       IN  IF r[Len(r)] = 0
           THEN Bs58Accumulate(Tail(s), SubSeq(r, 1, Len(r) - 1))
           ELSE Bs58Accumulate(Tail(s), r)

\* bs58::decode: one zero byte per leading '1', then the number's bytes
Bs58Decode(s) ==
  IF \E i \in 1..Len(s) : DigitValue(B58Alphabet, s[i]) = -1
  THEN Err("InvalidCharacter")
  ELSE LET z == LeadingCount(s, "1")
       IN  Ok(Zeros(z) \o Reverse(Bs58Accumulate(SubSeq(s, z + 1, Len(s)), <<>>)))

PubkeyFromStr(s) ==
  IF Len(s) > MAX_BASE58_LEN THEN Err("WrongSize")
  ELSE LET d == Bs58Decode(s)
       IN  IF ~d.ok THEN Err("Invalid")
           ELSE IF Len(d.v) # PUBKEY_BYTES THEN Err("WrongSize")
           ELSE Ok(d.v)

\* ------------------------------------------------------------------------
\* Signed integers (i16, i32, i128): two's complement on the same bytes
\* ------------------------------------------------------------------------

I16Bytes == 2

I32Bytes == 4

I128Bytes == 16

IsNegative(n) == n[Len(n)] >= 128

\* wrapping negation: invert every byte and add one
Negate(n) ==
  LET r == MulAddLE([i \in 1..Len(n) |-> 255 - n[i]], 1, 1)
  IN  SubSeq(r, 1, Len(n))

\* i16/i32/i128::to_string
SignedToString(n) ==
  IF IsNegative(n) THEN <<"-">> \o UnsignedToString(Negate(n))
  ELSE UnsignedToString(n)

\* <iN as FromStr>::from_str for a width of w bytes: the digits are
\* accumulated upwards for a positive text and downwards for a negative one,
\* and a step that leaves the type's range fails
ParseSigned(s, w) ==
  IF s = <<>> THEN Err("Empty")
  ELSE IF Len(s) = 1 /\ s[1] \in {"+", "-"} THEN Err("InvalidDigit")
  ELSE IF s[1] = "-"
       THEN LET m == ParseDigits(Tail(s), Zeros(w))
            IN  IF ~m.ok
                THEN (IF m.e = "PosOverflow" THEN Err("NegOverflow") ELSE m)
                ELSE IF IsNegative(m.v) /\ ~IsNegative(Negate(m.v))
                     THEN Err("NegOverflow")
                     ELSE Ok(Negate(m.v))
       ELSE LET m == ParseDigits(IF s[1] = "+" THEN Tail(s) ELSE s, Zeros(w))
            IN  IF m.ok /\ IsNegative(m.v) THEN Err("PosOverflow") ELSE m

\* ------------------------------------------------------------------------
\* JSON documents.  A number holds its numeral as written on the wire; an
\* object holds its members in document order.
\* ------------------------------------------------------------------------

JNull == [t |-> "null"]

JBool(b) == [t |-> "bool", b |-> b]

JNum(d) == [t |-> "num", d |-> d]

JStr(s) == [t |-> "str", s |-> s]

JArr(a) == [t |-> "arr", a |-> a]

JObj(m) == [t |-> "obj", m |-> m]

\* Option<T>: None, or Some of a value
None == [some |-> FALSE]

Some(v) == [some |-> TRUE, v |-> v]

\* ------------------------------------------------------------------------
\* serde_utils: the field encoders
\* ------------------------------------------------------------------------

\* field_as_string::serialize for an unsigned integer field
field_as_string_serialize_unsigned(n) == JStr(UnsignedToString(n))

\* field_as_string::serialize for a signed integer field
field_as_string_serialize_signed(n) == JStr(SignedToString(n))

\* field_as_string::serialize for a Pubkey field
field_as_string_serialize_pubkey(k) == JStr(PubkeyToString(k))

\* optional_field_as_string::serialize for Option<u64>
optional_field_as_string_serialize(o) ==
  IF o.some THEN JStr(UnsignedToString(o.v)) ELSE JNull

\* pubkey_vec::serialize
pubkey_vec_serialize(ks) == JArr([i \in 1..Len(ks) |-> JStr(PubkeyToString(ks[i]))])

\* serde's own encoding of a plain unsigned integer field: a JSON number
SerializeUnsigned(n) == JNum(UnsignedToString(n))

\* serde's own encoding of Option<unsigned>: null or a JSON number
SerializeOptionUnsigned(o) == IF o.some THEN SerializeUnsigned(o.v) ELSE JNull

\* ------------------------------------------------------------------------
\* request.rs: identifiers.  [tag |-> "Id", id |-> n] or
\* [tag |-> "Address", address |-> k]; the three families differ in the
\* width of the id.
\* ------------------------------------------------------------------------

Id(n) == [tag |-> "Id", id |-> n]

Address(k) == [tag |-> "Address", address |-> k]

ExchangeIdWidth == U64Bytes

MarginAccountIdWidth == U32Bytes

MarketIdWidth == U32Bytes

\* Default for ExchangeIdentifier: Id(ExchangeId::default())
ExchangeIdentifierDefault == Id(Zeros(ExchangeIdWidth))

\* Display for ExchangeIdentifier / MarginAccountIdentifier / MarketIdentifier
IdentifierToString(x) ==
  IF x.tag = "Id" THEN UnsignedToString(x.id) ELSE PubkeyToString(x.address)

\* Serialize as derived without serde(untagged): an object that names the
\* variant
SerializeIdentifierTagged(x) ==
  JObj(<<<<<<x.tag>>, JStr(IdentifierToString(x))>>>>)

\* Serialize for the untagged identifier enums: the variant's field encoder
SerializeIdentifier(x) ==
  IF x.tag = "Id" THEN field_as_string_serialize_unsigned(x.id)
  ELSE field_as_string_serialize_pubkey(x.address)

\* field_as_string::deserialize::<uN>: a JSON string, then FromStr
field_as_string_deserialize_unsigned(j, w) ==
  IF j.t # "str" THEN Err("invalid type") ELSE ParseUnsigned(j.s, w)

\* field_as_string::deserialize::<iN>
field_as_string_deserialize_signed(j, w) ==
  IF j.t # "str" THEN Err("invalid type") ELSE ParseSigned(j.s, w)

\* field_as_string::deserialize::<Pubkey>
field_as_string_deserialize_pubkey(j) ==
  IF j.t # "str" THEN Err("invalid type") ELSE PubkeyFromStr(j.s)

\* Deserialize for the untagged identifier enums with an id of w bytes: the
\* variants are tried in declaration order, Id first
DeserializeIdentifier(j, w) ==
  LET asId == field_as_string_deserialize_unsigned(j, w)
      asAddress == field_as_string_deserialize_pubkey(j)
  IN  IF asId.ok THEN Ok(Id(asId.v))
      ELSE IF asAddress.ok THEN Ok(Address(asAddress.v))
      ELSE Err("data did not match any variant")

\* MarketIdentifiersResponseKind as serialized (serde rename) and displayed
MarketIdentifiersResponseKindName(kind) ==
  CASE kind = "Map" -> "map"
    [] kind = "Addresses" -> "addresses"
    [] kind = "Ids" -> "ids"

\* a pair with both fields populated, which as_request_fields never gives
as_request_fields_both(slippage_setting) ==
  IF slippage_setting.tag = "AcceptablePrice"
  THEN <<Some(slippage_setting.price), Some(<<0, 0>>)>>
  ELSE <<Some(<<0, 0, 0, 0, 0, 0, 0, 0>>), Some(slippage_setting.bps)>>

\* SlippageSetting::as_request_fields: (acceptable_price, slippage_tolerance_bps)
as_request_fields(slippage_setting) ==
  IF slippage_setting.tag = "AcceptablePrice"
  THEN <<Some(slippage_setting.price), None>>
  ELSE <<None, Some(slippage_setting.bps)>>

AcceptablePrice(p) == [tag |-> "AcceptablePrice", price |-> p]

SlippageToleranceBps(b) == [tag |-> "SlippageToleranceBps", bps |-> b]

\* ------------------------------------------------------------------------
\* serde_utils/field_as_base64.rs
\* ------------------------------------------------------------------------

B64Alphabet ==
  <<"A", "B", "C", "D", "E", "F", "G", "H", "I", "J", "K", "L", "M", "N",
    "O", "P", "Q", "R", "S", "T", "U", "V", "W", "X", "Y", "Z", "a", "b",
    "c", "d", "e", "f", "g", "h", "i", "j", "k", "l", "m", "n", "o", "p",
    "q", "r", "s", "t", "u", "v", "w", "x", "y", "z", "0", "1", "2", "3",
    "4", "5", "6", "7", "8", "9", "+", "/">>

\* BASE64_STANDARD.decode: canonical padding is required and the bits left
\* over in the last symbol must be zero
Base64Decode(s) ==
  LET pad == LeadingCount(Reverse(s), "=")
      m   == Len(s) - pad
      val == [i \in 1..m |-> DigitValue(B64Alphabet, s[i])]
      n   == (m * 6) \div 8
  IN  IF \E i \in 1..m : val[i] = -1 THEN Err("InvalidByte")
      ELSE IF m % 4 = 1 THEN Err("InvalidLength")
      ELSE IF pad # (4 - (m % 4)) % 4 THEN Err("InvalidPadding")
      ELSE IF (m % 4 = 2 /\ val[m] % 16 # 0) \/ (m % 4 = 3 /\ val[m] % 4 # 0)
           THEN Err("InvalidLastSymbol")
      ELSE Ok([j \in 1..n |->
                LET c == ((8 * (j - 1)) \div 6) + 1
                    o == (8 * (j - 1)) % 6
                IN  CASE o = 0 -> val[c] * 4 + (val[c + 1] \div 16)
                      [] o = 2 -> (val[c] % 16) * 16 + (val[c + 1] \div 4)
                      [] o = 4 -> (val[c] % 4) * 64 + val[c + 1]])

\* field_as_base64::deserialize
field_as_base64_deserialize(j) ==
  IF j.t # "str" THEN Err("invalid type") ELSE Base64Decode(j.s)

\* ------------------------------------------------------------------------
\* serde_utils/pubkey_vec.rs and pubkey_values_map.rs: the decoders
\* ------------------------------------------------------------------------

\* v.into_iter().map(Pubkey::from_str).collect::<Result<Vec<_>, _>>(): the
\* first text that is no address fails the whole list
PubkeysFromStrs(v) ==
  LET r   == [i \in 1..Len(v) |-> PubkeyFromStr(v[i])]
      bad == {i \in 1..Len(v) : ~r[i].ok}
  IN  IF r # <<>> /\ bad # {} THEN r[CHOOSE i \in bad : \A k \in bad : i <= k]
      ELSE Ok([i \in 1..Len(v) |-> r[i].v])

\* Vec::<String>::deserialize
DeserializeVecString(j) ==
  IF j.t # "arr" THEN Err("invalid type")
  ELSE IF \E i \in 1..Len(j.a) : j.a[i].t # "str" THEN Err("invalid type")
  ELSE Ok([i \in 1..Len(j.a) |-> j.a[i].s])

\* pubkey_vec::deserialize
pubkey_vec_deserialize(j) ==
  LET v == DeserializeVecString(j)
  IN  IF ~v.ok THEN v ELSE PubkeysFromStrs(v.v)

\* the member of an object that a map keeps for a key: the last one
LastMember(m, key) ==
  m[CHOOSE i \in 1..Len(m) : m[i][1] = key /\ \A k \in (i + 1)..Len(m) : m[k][1] # key]

\* pubkey_values_map::deserialize: a map from text to text, then every key
\* parsed as a MarketId and every value as an address
pubkey_values_map_deserialize(j) ==
  IF j.t # "obj" THEN Err("invalid type")
  ELSE IF \E i \in 1..Len(j.m) : j.m[i][2].t # "str" THEN Err("invalid type")
  ELSE LET keys == {j.m[i][1] : i \in 1..Len(j.m)}
           id(k) == ParseUnsigned(k, U32Bytes)
           pk(k) == PubkeyFromStr(LastMember(j.m, k)[2].s)
       IN  IF \E k \in keys : ~id(k).ok \/ ~pk(k).ok THEN Err("custom")
           ELSE Ok([n \in {id(k).v : k \in keys} |->
                     pk(CHOOSE k \in keys : id(k).v = n).v])

\* ------------------------------------------------------------------------
\* serde's decoding of the response shapes.  A shape is written as serde's
\* derive sees it: the type of every field with its `with` attribute.
\* ------------------------------------------------------------------------

TUnsigned(w) == [k |-> "unsigned", w |-> w]

TSigned(w) == [k |-> "signed", w |-> w]

TStrUnsigned(w) == [k |-> "str_unsigned", w |-> w]

TStrSigned(w) == [k |-> "str_signed", w |-> w]

TStrPubkey == [k |-> "str_pubkey"]

TBase64 == [k |-> "base64"]

TString == [k |-> "string"]

TBool == [k |-> "bool"]

TUnitEnum(names) == [k |-> "unit_enum", names |-> names]

TVec(of) == [k |-> "vec", of |-> of]

\* the element type without its Option, under which null is no value
TRequired(of) == of

TOption(of) == [k |-> "option", of |-> of]

TMap(of) == [k |-> "map", of |-> of]

TStruct(fields) == [k |-> "struct", fields |-> fields]

TPubkeyVec == [k |-> "pubkey_vec"]

TPubkeyValuesMap == [k |-> "pubkey_values_map"]

TUntagged(variants) == [k |-> "untagged", variants |-> variants]

IsDigits(d) == d # <<>> /\ \A i \in 1..Len(d) : DigitValue(DecDigits, d[i]) # -1

\* an unsigned integer field from a JSON number: a plain digit numeral that
\* fits the width
DeserializeUnsigned(j, w) ==
  IF j.t # "num" \/ ~IsDigits(j.d) THEN Err("invalid type")
  ELSE ParseUnsigned(j.d, w)

\* a signed integer field from a JSON number ("-0" reads as a float)
DeserializeSigned(j, w) ==
  IF j.t # "num" THEN Err("invalid type")
  ELSE IF IsDigits(j.d) THEN ParseSigned(j.d, w)
  ELSE IF Len(j.d) > 1 /\ j.d[1] = "-" /\ IsDigits(Tail(j.d)) /\ j.d # <<"-", "0">>
       THEN ParseSigned(j.d, w)
  ELSE Err("invalid type")

Occurrences(m, name) == {i \in 1..Len(m) : m[i][1] = <<name>>}

RECURSIVE Deserialize(_, _)
RECURSIVE DeserializeElements(_, _)
RECURSIVE DeserializeFields(_, _)
RECURSIVE DeserializePositional(_, _)
RECURSIVE DeserializeVariants(_, _)

\* the first of the results that is an error, if there is one
FirstErr(r) ==
  LET bad == {i \in 1..Len(r) : ~r[i].ok}
  IN  IF bad = {} THEN Ok(<<>>) ELSE r[CHOOSE i \in bad : \A k \in bad : i <= k]

\* every element of a sequence with one shape; the first failure fails all
DeserializeElements(T, a) ==
  LET r == [i \in 1..Len(a) |-> Deserialize(T, a[i])]
  IN  IF r # <<>> /\ ~FirstErr(r).ok THEN FirstErr(r)
      ELSE Ok([i \in 1..Len(a) |-> r[i].v])

\* the fields of a struct from the members of an object: a member is matched
\* by name, unknown members are ignored, a repeated member is an error, and
\* a missing one is an error unless the field is a plain Option
DeserializeFields(fields, m) ==
  LET field(i) ==
        LET at == Occurrences(m, fields[i][1])
        IN  IF Cardinality(at) > 1 THEN Err("duplicate field")
            ELSE IF at = {}
                 THEN (IF fields[i][2].k = "option" THEN Ok(None)
                       ELSE Err("missing field"))
                 ELSE Deserialize(fields[i][2], m[CHOOSE k \in at : TRUE][2])
      r == [i \in 1..Len(fields) |-> field(i)]
  IN  IF r # <<>> /\ ~FirstErr(r).ok THEN FirstErr(r)
      ELSE Ok([i \in 1..Len(fields) |-> r[i].v])

\* the fields of a struct from an array, by position
DeserializePositional(fields, a) ==
  LET r == [i \in 1..Len(fields) |-> Deserialize(fields[i][2], a[i])]
  IN  IF r # <<>> /\ ~FirstErr(r).ok THEN FirstErr(r)
      ELSE Ok([i \in 1..Len(fields) |-> r[i].v])

\* an untagged enum: the variants in declaration order, the first that
\* decodes wins
DeserializeVariants(variants, j) ==
  IF variants = <<>> THEN Err("data did not match any variant")
  ELSE LET h == Deserialize(Head(variants)[2], j)
       IN  IF h.ok THEN Ok([variant |-> Head(variants)[1], v |-> h.v])
           ELSE DeserializeVariants(Tail(variants), j)

Deserialize(T, j) ==
  CASE T.k = "unsigned" -> DeserializeUnsigned(j, T.w)
    [] T.k = "signed" -> DeserializeSigned(j, T.w)
    [] T.k = "str_unsigned" -> field_as_string_deserialize_unsigned(j, T.w)
    [] T.k = "str_signed" -> field_as_string_deserialize_signed(j, T.w)
    [] T.k = "str_pubkey" -> field_as_string_deserialize_pubkey(j)
    [] T.k = "base64" -> field_as_base64_deserialize(j)
    [] T.k = "string" -> IF j.t = "str" THEN Ok(j.s) ELSE Err("invalid type")
    [] T.k = "bool" -> IF j.t = "bool" THEN Ok(j.b) ELSE Err("invalid type")
    [] T.k = "unit_enum" ->
         IF j.t = "str" /\ Len(j.s) = 1 /\ j.s[1] \in T.names THEN Ok(j.s[1])
         ELSE Err("unknown variant")
    [] T.k = "vec" ->
         IF j.t = "arr" THEN DeserializeElements(T.of, j.a) ELSE Err("invalid type")
    [] T.k = "option" ->
         IF j.t = "null" THEN Ok(None)
         ELSE LET r == Deserialize(T.of, j) IN IF r.ok THEN Ok(Some(r.v)) ELSE r
    [] T.k = "map" ->
         IF j.t # "obj" THEN Err("invalid type")
         ELSE LET vals == DeserializeElements(T.of, [i \in 1..Len(j.m) |-> j.m[i][2]])
              IN  IF ~vals.ok THEN vals
                  ELSE Ok([key \in {j.m[i][1] : i \in 1..Len(j.m)} |->
                            vals.v[CHOOSE i \in 1..Len(j.m) :
                                     LastMember(j.m, key) = j.m[i] /\ j.m[i][1] = key]])
    [] T.k = "struct" ->
         LET names == [i \in 1..Len(T.fields) |-> T.fields[i][1]]
             vals  == IF j.t = "obj" THEN DeserializeFields(T.fields, j.m)
                      ELSE IF j.t = "arr"
                           THEN (IF Len(j.a) # Len(T.fields) THEN Err("invalid length")
                                 ELSE DeserializePositional(T.fields, j.a))
                           ELSE Err("invalid type")
         IN  IF ~vals.ok THEN vals
             ELSE Ok([n \in {names[i] : i \in 1..Len(names)} |->
                       vals.v[CHOOSE i \in 1..Len(names) : names[i] = n]])
    [] T.k = "pubkey_vec" -> pubkey_vec_deserialize(j)
    [] T.k = "pubkey_values_map" -> pubkey_values_map_deserialize(j)
    [] T.k = "untagged" -> DeserializeVariants(T.variants, j)

\* ------------------------------------------------------------------------
\* response.rs: the response shapes
\* ------------------------------------------------------------------------

U8Bytes == 1

U128Bytes == 16

TransactionInfo ==
  TStruct(<<
    <<"transaction", TBase64>>,
    <<"total_required_lamports", TUnsigned(U64Bytes)>>,
    <<"required_compute_lamports", TUnsigned(U64Bytes)>>,
    <<"required_rent_lamports", TUnsigned(U64Bytes)>>,
    <<"cu_limit", TUnsigned(U32Bytes)>>>>)

AccountMetaInternal ==
  TStruct(<<
    <<"pubkey", TStrPubkey>>,
    <<"is_signer", TBool>>,
    <<"is_writable", TBool>>>>)

InstructionInternal ==
  TStruct(<<
    <<"program_id", TStrPubkey>>,
    <<"accounts", TVec(AccountMetaInternal)>>,
    <<"data", TBase64>>>>)

InstructionsInternal ==
  TStruct(<<
    <<"v3_instructions", TVec(InstructionInternal)>>,
    <<"compute_budget_instructions", TVec(InstructionInternal)>>>>)

InstructionInfoInternal ==
  TStruct(<<
    <<"instructions", InstructionsInternal>>,
    <<"total_required_lamports", TUnsigned(U64Bytes)>>,
    <<"required_compute_lamports", TUnsigned(U64Bytes)>>,
    <<"required_rent_lamports", TUnsigned(U64Bytes)>>,
    <<"cu_limit", TUnsigned(U32Bytes)>>>>)

CreateMarginAccountTransactionResponse ==
  TStruct(<<
    <<"transaction", TBase64>>,
    <<"total_required_lamports", TUnsigned(U64Bytes)>>,
    <<"required_compute_lamports", TUnsigned(U64Bytes)>>,
    <<"required_rent_lamports", TUnsigned(U64Bytes)>>,
    <<"margin_account_address", TStrPubkey>>,
    <<"margin_account_id", TUnsigned(U32Bytes)>>>>)

CreateMarginAccountInstructionsResponseInternal ==
  TStruct(<<
    <<"instructions", InstructionsInternal>>,
    <<"total_required_lamports", TUnsigned(U64Bytes)>>,
    <<"required_compute_lamports", TUnsigned(U64Bytes)>>,
    <<"required_rent_lamports", TUnsigned(U64Bytes)>>,
    <<"margin_account_address", TStrPubkey>>,
    <<"margin_account_id", TUnsigned(U32Bytes)>>>>)

ExchangeInfoAccounting ==
  TStruct(<<
    <<"notional_open_interest", TStrUnsigned(U128Bytes)>>,
    <<"last_time_locked_open_interest_accounting_refreshed", TStrUnsigned(U64Bytes)>>,
    <<"balance", TStrUnsigned(U64Bytes)>>,
    <<"margin_balance", TStrUnsigned(U64Bytes)>>,
    <<"lp_balance", TStrUnsigned(U64Bytes)>>,
    <<"lp_shares", TStrUnsigned(U64Bytes)>>,
    <<"protocol_fees", TStrUnsigned(U64Bytes)>>,
    <<"unsettled_collateral_amount", TStrUnsigned(U64Bytes)>>>>)

ExchangeInfoSettings ==
  TStruct(<<
    <<"min_lp_duration", TUnsigned(U64Bytes)>>,
    <<"settlement_delay", TUnsigned(U64Bytes)>>,
    <<"min_liquidation_fee", TStrUnsigned(U64Bytes)>>,
    <<"max_liquidation_fee", TStrUnsigned(U64Bytes)>>,
    <<"locked_open_interest_staleness_threshold", TUnsigned(U64Bytes)>>,
    <<"protocol_fee_rate", TUnsigned(U16Bytes)>>,
    <<"locked_open_interest_ratio", TUnsigned(U16Bytes)>>,
    <<"max_keeper_tip_rate", TUnsigned(U16Bytes)>>>>)

OracleKind == TUnitEnum({"Pyth", "Parcl", "PythV2"})

OracleConfig ==
  TStruct(<<
    <<"kind", OracleKind>>,
    <<"program_id", TStrPubkey>>>>)

ExchangeInfo ==
  TStruct(<<
    <<"address", TStrPubkey>>,
    <<"accounting", ExchangeInfoAccounting>>,
    <<"settings", ExchangeInfoSettings>>,
    <<"id", TStrUnsigned(U64Bytes)>>,
    <<"market_ids", TVec(TUnsigned(U32Bytes))>>,
    <<"oracle_configs", TVec(OracleConfig)>>,
    <<"status", TUnsigned(U16Bytes)>>,
    <<"collateral_expo", TSigned(I16Bytes)>>,
    <<"collateral_mint", TStrPubkey>>,
    <<"collateral_vault", TStrPubkey>>,
    <<"admin", TStrPubkey>>,
    <<"nominated_admin", TStrPubkey>>,
    <<"authorized_settler", TStrPubkey>>,
    <<"authorized_protocol_fees_collector", TStrPubkey>>>>)

\* the variants tried with Addresses ahead of Ids
MarketIdentifiersResponseAddressesFirst ==
  TUntagged(<<
    <<"Addresses", TPubkeyVec>>,
    <<"Ids", TVec(TUnsigned(U32Bytes))>>,
    <<"Map", TPubkeyValuesMap>>>>)

\* the untagged MarketIdentifiersResponse: Ids, Addresses, Map in this order
MarketIdentifiersResponse ==
  TUntagged(<<
    <<"Ids", TVec(TUnsigned(U32Bytes))>>,
    <<"Addresses", TPubkeyVec>>,
    <<"Map", TPubkeyValuesMap>>>>)

Margins ==
  TStruct(<<
    <<"available_margin", TStrSigned(I128Bytes)>>,
    <<"total_required_margin", TStrUnsigned(U64Bytes)>>,
    <<"required_initial_margin", TStrUnsigned(U64Bytes)>>,
    <<"required_maintenance_margin", TStrUnsigned(U64Bytes)>>,
    <<"required_liquidation_fee_margin", TStrUnsigned(U64Bytes)>>,
    <<"accumulated_liquidation_fees", TStrUnsigned(U64Bytes)>>>>)

PositionInfo ==
  TStruct(<<
    <<"size", TStrSigned(I128Bytes)>>,
    <<"last_interaction_price", TStrUnsigned(U128Bytes)>>,
    <<"last_interaction_funding_per_unit", TString>>,
    <<"market_id", TUnsigned(U32Bytes)>>>>)

MarginAccountInfo ==
  TStruct(<<
    <<"address", TStrPubkey>>,
    <<"id", TUnsigned(U32Bytes)>>,
    <<"active_market_ids", TVec(TUnsigned(U32Bytes))>>,
    <<"positions", TVec(PositionInfo)>>,
    <<"margins", Margins>>,
    <<"margin", TStrUnsigned(U64Bytes)>>,
    <<"excess_margin", TStrUnsigned(U64Bytes)>>,
    <<"exchange", TStrPubkey>>,
    <<"owner", TStrPubkey>>,
    <<"delegate", TStrPubkey>>,
    <<"can_close", TBool>>,
    <<"can_liquidate", TBool>>,
    <<"in_liquidation", TBool>>>>)

PriceFeedInfo ==
  TStruct(<<
    <<"price", TStrUnsigned(U64Bytes)>>,
    <<"expo", TSigned(I32Bytes)>>>>)

MarketInfoAccounting ==
  TStruct(<<
    <<"last_utilized_liquidation_capacity", TStrUnsigned(U128Bytes)>>,
    <<"size", TStrUnsigned(U128Bytes)>>,
    <<"skew", TStrSigned(I128Bytes)>>,
    <<"last_funding_rate", TString>>,
    <<"last_funding_per_unit", TString>>,
    <<"last_time_funding_updated", TUnsigned(U64Bytes)>>,
    <<"first_liquidation_epoch_start_time", TUnsigned(U64Bytes)>>,
    <<"last_liquidation_epoch_index", TUnsigned(U64Bytes)>>,
    <<"last_time_liquidation_capacity_updated", TUnsigned(U64Bytes)>>>>)

MarketInfoSettings ==
  TStruct(<<
    <<"min_position_margin", TStrUnsigned(U128Bytes)>>,
    <<"skew_scale", TStrUnsigned(U128Bytes)>>,
    <<"max_side_size", TStrUnsigned(U128Bytes)>>,
    <<"max_liquidation_limit_accumulation_multiplier", TUnsigned(U64Bytes)>>,
    <<"max_seconds_in_liquidation_epoch", TUnsigned(U64Bytes)>>,
    <<"initial_margin_ratio", TUnsigned(U32Bytes)>>,
    <<"maker_fee_rate", TUnsigned(U16Bytes)>>,
    <<"taker_fee_rate", TUnsigned(U16Bytes)>>,
    <<"max_funding_velocity", TUnsigned(U16Bytes)>>,
    <<"liquidation_fee_rate", TUnsigned(U16Bytes)>>,
    <<"min_initial_margin_ratio", TUnsigned(U16Bytes)>>,
    <<"maintenance_margin_proportion", TUnsigned(U16Bytes)>>,
    <<"max_liquidation_pd", TUnsigned(U16Bytes)>>,
    <<"authorized_liquidator", TStrPubkey>>>>)

MarketInfo ==
  TStruct(<<
    <<"address", TStrPubkey>>,
    <<"price_feed_info", PriceFeedInfo>>,
    <<"accounting", MarketInfoAccounting>>,
    <<"settings", MarketInfoSettings>>,
    <<"id", TUnsigned(U32Bytes)>>,
    <<"exchange", TStrPubkey>>,
    <<"price_feed", TStrPubkey>>,
    <<"status", TUnsigned(U8Bytes)>>>>)

\* the shape of the modify-position quote: its declaration is not among the
\* sources, so any JSON object is taken as one
ModifyPositionQuote == TStruct(<<>>)

\* From<AccountMetaInternal> for AccountMeta
AccountMetaFrom(account_meta) ==
  [pubkey |-> account_meta.pubkey,
   is_signer |-> account_meta.is_signer,
   is_writable |-> account_meta.is_writable]

\* From<InstructionInternal> for Instruction
InstructionFrom(ix) ==
  [program_id |-> ix.program_id,
   accounts |-> [i \in 1..Len(ix.accounts) |-> AccountMetaFrom(ix.accounts[i])],
   data |-> ix.data]

\* the two instruction lists changing places, which the conversion never does
InstructionsFromSwapped(ixs) ==
  [v3_instructions |->
     [i \in 1..Len(ixs.compute_budget_instructions) |->
        [program_id |-> ixs.compute_budget_instructions[i].program_id,
         accounts |-> ixs.compute_budget_instructions[i].accounts,
         data |-> ixs.compute_budget_instructions[i].data]],
   compute_budget_instructions |->
     [i \in 1..Len(ixs.v3_instructions) |->
        [program_id |-> ixs.v3_instructions[i].program_id,
         accounts |-> ixs.v3_instructions[i].accounts,
         data |-> ixs.v3_instructions[i].data]]]

\* From<InstructionsInternal> for Instructions
InstructionsFrom(ixs) ==
  [v3_instructions |->
     [i \in 1..Len(ixs.v3_instructions) |-> InstructionFrom(ixs.v3_instructions[i])],
   compute_budget_instructions |->
     [i \in 1..Len(ixs.compute_budget_instructions) |->
        InstructionFrom(ixs.compute_budget_instructions[i])]]

\* From<InstructionInfoInternal> for InstructionInfo
InstructionInfoFrom(ixs) ==
  [instructions |-> InstructionsFrom(ixs.instructions),
   total_required_lamports |-> ixs.total_required_lamports,
   required_compute_lamports |-> ixs.required_compute_lamports,
   required_rent_lamports |-> ixs.required_rent_lamports,
   cu_limit |-> ixs.cu_limit]

\* From<CreateMarginAccountInstructionsResponseInternal>
\*   for CreateMarginAccountInstructionsResponse
CreateMarginAccountInstructionsResponseFrom(ixs) ==
  [instructions |-> InstructionsFrom(ixs.instructions),
   total_required_lamports |-> ixs.total_required_lamports,
   required_compute_lamports |-> ixs.required_compute_lamports,
   required_rent_lamports |-> ixs.required_rent_lamports,
   margin_account_address |-> ixs.margin_account_address,
   margin_account_id |-> ixs.margin_account_id]

\* ------------------------------------------------------------------------
\* lib.rs: the client.  A request as handed to the transport, and the
\* response the transport hands back.
\* ------------------------------------------------------------------------

NoValue == [none |-> TRUE]

\* ParclV3ApiClient::new
new(config) ==
  [base_url |-> config.base_url,
   exchange_id |-> IF config.exchange_id.some THEN config.exchange_id.v
                   ELSE ExchangeIdentifierDefault,
   priority_fee_percentile |-> config.priority_fee_percentile]

\* constants::DEFAULT_V3_API_URL: a fixed text, whatever it spells
DEFAULT_V3_API_URL == "DEFAULT_V3_API_URL"

\* Default for ParclV3ApiClient
default ==
  [base_url |-> DEFAULT_V3_API_URL,
   exchange_id |-> ExchangeIdentifierDefault,
   priority_fee_percentile |-> None]

\* build_url: the base url followed by the path
build_url(self, path) == <<self.base_url, path>>

\* client.get(url).query(..).send(): the pairs of the query string in order;
\* a pair whose value is None is left out
Get(url, query) ==
  LET kept == SelectSeq(query, LAMBDA pair : pair[2].some)
  IN  [http |-> "GET", url |-> url,
       query |-> [i \in 1..Len(kept) |-> <<kept[i][1], kept[i][2].v>>],
       payload |-> NoValue, json |-> NoValue]

\* client.post(url).json(&payload).send()
Post(url, payload, json) ==
  [http |-> "POST", url |-> url, query |-> <<>>, payload |-> payload, json |-> json]

Member(name, value) == <<<<name>>, value>>

\* Serialize for Option<ExchangeIdentifier> and the other optional identifiers
SerializeOptionIdentifier(o) == IF o.some THEN SerializeIdentifier(o.v) ELSE JNull

\* Serialize for MarginAccountsPayload
SerializeMarginAccountsPayload(p) ==
  JObj(<<Member("margin_accounts", pubkey_vec_serialize(p.margin_accounts)),
         Member("exchange_id", SerializeOptionIdentifier(p.exchange_id))>>)

\* Serialize for MarketsPayload
SerializeMarketsPayload(p) ==
  JObj(<<Member("market_ids",
                JArr([i \in 1..Len(p.market_ids) |-> SerializeIdentifier(p.market_ids[i])])),
         Member("exchange_id", SerializeOptionIdentifier(p.exchange_id))>>)

\* Serialize for CloseMarginAccountPayload
SerializeCloseMarginAccountPayload(p) ==
  JObj(<<Member("owner", field_as_string_serialize_pubkey(p.owner)),
         Member("margin_account_id", SerializeIdentifier(p.margin_account_id)),
         Member("exchange_id", SerializeOptionIdentifier(p.exchange_id)),
         Member("priority_fee_percentile",
                SerializeOptionUnsigned(p.priority_fee_percentile))>>)

\* the close-position payload with a size_delta member of zero, as the
\* modify-position payload would carry it
SerializeClosePositionPayloadWithSizeDelta(p) ==
  JObj(<<<<<<"owner">>, field_as_string_serialize_pubkey(p.owner)>>,
         <<<<"margin_account_id">>, SerializeIdentifier(p.margin_account_id)>>,
         <<<<"market_id">>, SerializeUnsigned(p.market_id)>>,
         <<<<"size_delta">>, JStr(<<"0">>)>>,
         <<<<"acceptable_price">>, optional_field_as_string_serialize(p.acceptable_price)>>,
         <<<<"slippage_tolerance_bps">>,
           SerializeOptionUnsigned(p.slippage_tolerance_bps)>>,
         <<<<"exchange_id">>, IF p.exchange_id.some
                             THEN SerializeIdentifier(p.exchange_id.v) ELSE JNull>>,
         <<<<"priority_fee_percentile">>,
           SerializeOptionUnsigned(p.priority_fee_percentile)>>>>)

\* Serialize for ClosePositionPayload
SerializeClosePositionPayload(p) ==
  JObj(<<Member("owner", field_as_string_serialize_pubkey(p.owner)),
         Member("margin_account_id", SerializeIdentifier(p.margin_account_id)),
         Member("market_id", SerializeUnsigned(p.market_id)),
         Member("acceptable_price", optional_field_as_string_serialize(p.acceptable_price)),
         Member("slippage_tolerance_bps",
                SerializeOptionUnsigned(p.slippage_tolerance_bps)),
         Member("exchange_id", SerializeOptionIdentifier(p.exchange_id)),
         Member("priority_fee_percentile",
                SerializeOptionUnsigned(p.priority_fee_percentile))>>)

\* Serialize for CreateMarginAccountPayload
SerializeCreateMarginAccountPayload(p) ==
  JObj(<<Member("owner", field_as_string_serialize_pubkey(p.owner)),
         Member("margin_account_id", SerializeOptionUnsigned(p.margin_account_id)),
         Member("exchange_id", SerializeOptionIdentifier(p.exchange_id)),
         Member("priority_fee_percentile",
                SerializeOptionUnsigned(p.priority_fee_percentile))>>)

\* Serialize for DepositMarginPayload
SerializeDepositMarginPayload(p) ==
  JObj(<<Member("owner", field_as_string_serialize_pubkey(p.owner)),
         Member("margin_account_id", SerializeIdentifier(p.margin_account_id)),
         Member("margin", SerializeUnsigned(p.margin)),
         Member("exchange_id", SerializeOptionIdentifier(p.exchange_id)),
         Member("priority_fee_percentile",
                SerializeOptionUnsigned(p.priority_fee_percentile))>>)

\* Serialize for ModifyPositionPayload
SerializeModifyPositionPayload(p) ==
  JObj(<<Member("owner", field_as_string_serialize_pubkey(p.owner)),
         Member("margin_account_id", SerializeIdentifier(p.margin_account_id)),
         Member("market_id", SerializeUnsigned(p.market_id)),
         Member("size_delta", field_as_string_serialize_signed(p.size_delta)),
         Member("acceptable_price", optional_field_as_string_serialize(p.acceptable_price)),
         Member("slippage_tolerance_bps",
                SerializeOptionUnsigned(p.slippage_tolerance_bps)),
         Member("exchange_id", SerializeOptionIdentifier(p.exchange_id)),
         Member("priority_fee_percentile",
                SerializeOptionUnsigned(p.priority_fee_percentile))>>)

\* Serialize for WithdrawMarginPayload
SerializeWithdrawMarginPayload(p) ==
  JObj(<<Member("owner", field_as_string_serialize_pubkey(p.owner)),
         Member("margin_account_id", SerializeIdentifier(p.margin_account_id)),
         Member("margin", SerializeUnsigned(p.margin)),
         Member("settlement_request_id",
                SerializeOptionUnsigned(p.settlement_request_id)),
         Member("keeper_tip", SerializeOptionUnsigned(p.keeper_tip)),
         Member("exchange_id", SerializeOptionIdentifier(p.exchange_id)),
         Member("priority_fee_percentile",
                SerializeOptionUnsigned(p.priority_fee_percentile))>>)

\* Serialize for LiquidatePayload
SerializeLiquidatePayload(p) ==
  JObj(<<Member("margin_account_to_liquidate",
                field_as_string_serialize_pubkey(p.margin_account_to_liquidate)),
         Member("liquidator", field_as_string_serialize_pubkey(p.liquidator)),
         Member("liquidator_margin_account_id",
                SerializeIdentifier(p.liquidator_margin_account_id)),
         Member("exchange_id", SerializeOptionIdentifier(p.exchange_id)),
         Member("priority_fee_percentile",
                SerializeOptionUnsigned(p.priority_fee_percentile))>>)

\* Serialize for ModifyPositionQuotePayload
SerializeModifyPositionQuotePayload(p) ==
  JObj(<<Member("owner", field_as_string_serialize_pubkey(p.owner)),
         Member("margin_account_id", SerializeIdentifier(p.margin_account_id)),
         Member("market_id", SerializeUnsigned(p.market_id)),
         Member("size_delta", field_as_string_serialize_signed(p.size_delta)),
         Member("acceptable_price", optional_field_as_string_serialize(p.acceptable_price)),
         Member("slippage_tolerance_bps",
                SerializeOptionUnsigned(p.slippage_tolerance_bps)),
         Member("exchange_id", SerializeOptionIdentifier(p.exchange_id))>>)

\* ------------------------------------------------------------------------
\* lib.rs: the request every client method builds
\* ------------------------------------------------------------------------

\* the default exchange in place of the configured one, which no request has
DefaultExchangeIdPair(self) ==
  <<"exchange_id", Some(UnsignedToString(<<0, 0, 0, 0, 0, 0, 0, 0>>))>>

\* the pair ("exchange_id", self.exchange_id.to_string()) of every GET
ExchangeIdPair(self) == <<"exchange_id", Some(IdentifierToString(self.exchange_id))>>

get_exchange_request(self) ==
  Get(build_url(self, "/exchange"), <<ExchangeIdPair(self)>>)

get_exponents_request(self) ==
  Get(build_url(self, "/exponents"), <<ExchangeIdPair(self)>>)

get_market_ids_internal_request(self, response_kind) ==
  Get(build_url(self, "/market-ids"),
      <<<<"response_kind", Some(<<MarketIdentifiersResponseKindName(response_kind)>>)>>,
        ExchangeIdPair(self)>>)

get_market_ids_request(self) == get_market_ids_internal_request(self, "Ids")

get_market_ids_map_request(self) == get_market_ids_internal_request(self, "Map")

get_market_addresses_request(self) == get_market_ids_internal_request(self, "Addresses")

get_margin_account_request(self, margin_account_id, owner) ==
  Get(build_url(self, "/margin-account"),
      <<<<"margin_account_id", Some(IdentifierToString(margin_account_id))>>,
        <<"owner", IF owner.some THEN Some(PubkeyToString(owner.v)) ELSE None>>,
        ExchangeIdPair(self)>>)

get_margin_account_from_id_request(self, owner, margin_account_id) ==
  get_margin_account_request(self, Id(margin_account_id), Some(owner))

get_margin_account_from_address_request(self, address) ==
  get_margin_account_request(self, Address(address), None)

get_margin_accounts_request(self, margin_accounts) ==
  LET payload == [margin_accounts |-> margin_accounts,
                  exchange_id |-> Some(self.exchange_id)]
  IN  Post(build_url(self, "/margin-accounts"), payload,
           SerializeMarginAccountsPayload(payload))

get_unhealthy_margin_accounts_request(self) ==
  Get(build_url(self, "/unhealthy-margin-accounts"), <<ExchangeIdPair(self)>>)

get_market_request(self, market_id) ==
  Get(build_url(self, "/market"),
      <<<<"market_id", Some(IdentifierToString(market_id))>>, ExchangeIdPair(self)>>)

get_market_from_id_request(self, market_id) == get_market_request(self, Id(market_id))

get_market_from_address_request(self, address) ==
  get_market_request(self, Address(address))

get_markets_request(self, market_ids) ==
  LET payload == [market_ids |-> market_ids, exchange_id |-> Some(self.exchange_id)]
  IN  Post(build_url(self, "/markets"), payload, SerializeMarketsPayload(payload))

get_markets_from_addresses_request(self, addresses) ==
  get_markets_request(self, [i \in 1..Len(addresses) |-> Address(addresses[i])])

get_markets_from_ids_request(self, ids) ==
  get_markets_request(self, [i \in 1..Len(ids) |-> Id(ids[i])])

get_create_margin_account_transaction_request(self, owner, margin_account_id) ==
  LET payload == [owner |-> owner,
                  margin_account_id |-> margin_account_id,
                  exchange_id |-> Some(self.exchange_id),
                  priority_fee_percentile |-> self.priority_fee_percentile]
  IN  Post(build_url(self, "/create-margin-account-transaction"), payload,
           SerializeCreateMarginAccountPayload(payload))

get_create_margin_account_instructions_request(self, owner, margin_account_id) ==
  LET payload == [owner |-> owner,
                  margin_account_id |-> margin_account_id,
                  exchange_id |-> Some(self.exchange_id),
                  priority_fee_percentile |-> self.priority_fee_percentile]
  IN  Post(build_url(self, "/create-margin-account-instructions"), payload,
           SerializeCreateMarginAccountPayload(payload))

get_close_margin_account_transaction_request(self, owner, margin_account_id) ==
  LET payload == [owner |-> owner,
                  margin_account_id |-> margin_account_id,
                  exchange_id |-> Some(self.exchange_id),
                  priority_fee_percentile |-> self.priority_fee_percentile]
  IN  Post(build_url(self, "/close-margin-account-transaction"), payload,
           SerializeCloseMarginAccountPayload(payload))

get_close_margin_account_instructions_request(self, owner, margin_account_id) ==
  LET payload == [owner |-> owner,
                  margin_account_id |-> margin_account_id,
                  exchange_id |-> Some(self.exchange_id),
                  priority_fee_percentile |-> self.priority_fee_percentile]
  IN  Post(build_url(self, "/close-margin-account-instructions"), payload,
           SerializeCloseMarginAccountPayload(payload))

get_deposit_margin_transaction_request(self, owner, margin_account_id, margin) ==
  LET payload == [owner |-> owner,
                  margin_account_id |-> margin_account_id,
                  margin |-> margin,
                  exchange_id |-> Some(self.exchange_id),
                  priority_fee_percentile |-> self.priority_fee_percentile]
  IN  Post(build_url(self, "/deposit-margin-transaction"), payload,
           SerializeDepositMarginPayload(payload))

get_deposit_margin_instructions_request(self, owner, margin_account_id, margin) ==
  LET payload == [owner |-> owner,
                  margin_account_id |-> margin_account_id,
                  margin |-> margin,
                  exchange_id |-> Some(self.exchange_id),
                  priority_fee_percentile |-> self.priority_fee_percentile]
  IN  Post(build_url(self, "/deposit-margin-instructions"), payload,
           SerializeDepositMarginPayload(payload))

get_withdraw_margin_transaction_request(self, owner, margin_account_id, margin, settlement_request_id, keeper_tip) ==
  LET payload == [owner |-> owner,
                  margin_account_id |-> margin_account_id,
                  margin |-> margin,
                  settlement_request_id |-> settlement_request_id,
                  keeper_tip |-> keeper_tip,
                  exchange_id |-> Some(self.exchange_id),
                  priority_fee_percentile |-> self.priority_fee_percentile]
  IN  Post(build_url(self, "/withdraw-margin-transaction"), payload,
           SerializeWithdrawMarginPayload(payload))

\* a sibling that leaves the keeper tip out, which the instructions method
\* does not
get_withdraw_margin_instructions_request_without_tip(self, owner, margin_account_id, margin, settlement_request_id, keeper_tip) ==
  LET payload == [owner |-> owner,
                  margin_account_id |-> margin_account_id,
                  margin |-> margin,
                  settlement_request_id |-> settlement_request_id,
                  keeper_tip |-> None,
                  exchange_id |-> Some(self.exchange_id),
                  priority_fee_percentile |-> self.priority_fee_percentile]
  IN  Post(build_url(self, "/withdraw-margin-instructions"), payload,
           SerializeWithdrawMarginPayload(payload))

get_withdraw_margin_instructions_request(self, owner, margin_account_id, margin, settlement_request_id, keeper_tip) ==
  LET payload == [owner |-> owner,
                  margin_account_id |-> margin_account_id,
                  margin |-> margin,
                  settlement_request_id |-> settlement_request_id,
                  keeper_tip |-> keeper_tip,
                  exchange_id |-> Some(self.exchange_id),
                  priority_fee_percentile |-> self.priority_fee_percentile]
  IN  Post(build_url(self, "/withdraw-margin-instructions"), payload,
           SerializeWithdrawMarginPayload(payload))

get_modify_position_transaction_request(self, owner, margin_account_id, market_id, size_delta, slippage_setting) ==
  LET payload == [owner |-> owner,
                  margin_account_id |-> margin_account_id,
                  market_id |-> market_id,
                  size_delta |-> size_delta,
                  acceptable_price |-> as_request_fields(slippage_setting)[1],
                  slippage_tolerance_bps |-> as_request_fields(slippage_setting)[2],
                  exchange_id |-> Some(self.exchange_id),
                  priority_fee_percentile |-> self.priority_fee_percentile]
  IN  Post(build_url(self, "/modify-position-transaction"), payload,
           SerializeModifyPositionPayload(payload))

get_modify_position_instructions_request(self, owner, margin_account_id, market_id, size_delta, slippage_setting) ==
  LET payload == [owner |-> owner,
                  margin_account_id |-> margin_account_id,
                  market_id |-> market_id,
                  size_delta |-> size_delta,
                  acceptable_price |-> as_request_fields(slippage_setting)[1],
                  slippage_tolerance_bps |-> as_request_fields(slippage_setting)[2],
                  exchange_id |-> Some(self.exchange_id),
                  priority_fee_percentile |-> self.priority_fee_percentile]
  IN  Post(build_url(self, "/modify-position-instructions"), payload,
           SerializeModifyPositionPayload(payload))

get_close_position_transaction_request(self, owner, margin_account_id, market_id, slippage_setting) ==
  LET payload == [owner |-> owner,
                  margin_account_id |-> margin_account_id,
                  market_id |-> market_id,
                  acceptable_price |-> as_request_fields(slippage_setting)[1],
                  slippage_tolerance_bps |-> as_request_fields(slippage_setting)[2],
                  exchange_id |-> Some(self.exchange_id),
                  priority_fee_percentile |-> self.priority_fee_percentile]
  IN  Post(build_url(self, "/close-position-transaction"), payload,
           SerializeClosePositionPayload(payload))

get_close_position_instructions_request(self, owner, margin_account_id, market_id, slippage_setting) ==
  LET payload == [owner |-> owner,
                  margin_account_id |-> margin_account_id,
                  market_id |-> market_id,
                  acceptable_price |-> as_request_fields(slippage_setting)[1],
                  slippage_tolerance_bps |-> as_request_fields(slippage_setting)[2],
                  exchange_id |-> Some(self.exchange_id),
                  priority_fee_percentile |-> self.priority_fee_percentile]
  IN  Post(build_url(self, "/close-position-instructions"), payload,
           SerializeClosePositionPayload(payload))

get_liquidate_transaction_request(self, margin_account_to_liquidate, liquidator, liquidator_margin_account_id) ==
  LET payload == [margin_account_to_liquidate |-> margin_account_to_liquidate,
                  liquidator |-> liquidator,
                  liquidator_margin_account_id |-> liquidator_margin_account_id,
                  exchange_id |-> Some(self.exchange_id),
                  priority_fee_percentile |-> self.priority_fee_percentile]
  IN  Post(build_url(self, "/liquidate-transaction"), payload,
           SerializeLiquidatePayload(payload))

\* the instructions request sent to the path of its transaction sibling
get_liquidate_instructions_request_on_transaction_path(self, margin_account_to_liquidate, liquidator, liquidator_margin_account_id) ==
  LET payload == [margin_account_to_liquidate |-> margin_account_to_liquidate,
                  liquidator |-> liquidator,
                  liquidator_margin_account_id |-> liquidator_margin_account_id,
                  exchange_id |-> Some(self.exchange_id),
                  priority_fee_percentile |-> self.priority_fee_percentile]
  IN  Post(build_url(self, "/liquidate-transaction"), payload,
           SerializeLiquidatePayload(payload))

get_liquidate_instructions_request(self, margin_account_to_liquidate, liquidator, liquidator_margin_account_id) ==
  LET payload == [margin_account_to_liquidate |-> margin_account_to_liquidate,
                  liquidator |-> liquidator,
                  liquidator_margin_account_id |-> liquidator_margin_account_id,
                  exchange_id |-> Some(self.exchange_id),
                  priority_fee_percentile |-> self.priority_fee_percentile]
  IN  Post(build_url(self, "/liquidate-instructions"), payload,
           SerializeLiquidatePayload(payload))

get_modify_position_quote_request(self, owner, margin_account_id, market_id, size_delta, slippage_setting) ==
  LET payload == [owner |-> owner,
                  margin_account_id |-> margin_account_id,
                  market_id |-> market_id,
                  size_delta |-> size_delta,
                  acceptable_price |-> as_request_fields(slippage_setting)[1],
                  slippage_tolerance_bps |-> as_request_fields(slippage_setting)[2],
                  exchange_id |-> Some(self.exchange_id)]
  IN  Post(build_url(self, "/modify-position-quote"), payload,
           SerializeModifyPositionQuotePayload(payload))

\* ------------------------------------------------------------------------
\* lib.rs: what every client method does with the response
\* ------------------------------------------------------------------------

\* a response body: text that is no JSON, a JSON document, or a body whose
\* read fails
TextBody(s) == [kind |-> "text", s |-> s]

JsonBody(doc) == [kind |-> "json", doc |-> doc]

UnreadableBody == [kind |-> "unreadable"]

\* String::default()
EmptyText == TextBody(<<>>)

\* a success range that takes 300 in, which is_success does not
is_success_through_300(status) == 200 <= status /\ status <= 300

\* StatusCode::is_success
is_success(status) == 200 <= status /\ status <= 299

\* Response::text
response_text(response) ==
  IF response.body.kind = "unreadable" THEN Err("body") ELSE Ok(response.body)

\* ParclV3ApiClientError::Request(status, body)
RequestError(status, body) == [kind |-> "Request", status |-> status, body |-> body]

\* ParclV3ApiClientError::MarketIdsResponse(response_kind)
MarketIdsResponseError(response_kind) ==
  [kind |-> "MarketIdsResponse", response_kind |-> response_kind]

\* a reqwest::Error: of the send, of the body read, or of the decode
ReqwestError(cause) == [kind |-> "Reqwest", cause |-> cause]

\* unwrap_or_default on the text of the body
UnwrapOrDefault(text) == IF text.ok THEN text.v ELSE EmptyText

\* a validation that hands the failure of the body read to the caller
validate_response_propagating_text_error(response) ==
  IF ~is_success(response.status)
  THEN LET text == response_text(response)
       IN  IF text.ok THEN Err(RequestError(response.status, text.v))
           ELSE Err(ReqwestError("body"))
  ELSE Ok(response)

validate_response(response) ==
  IF ~is_success(response.status)
  THEN Err(RequestError(response.status, UnwrapOrDefault(response_text(response))))
  ELSE Ok(response)

\* a decode failure reported as the transport's failure to send
response_json_as_send_failure(T, response) ==
  IF response.body.kind = "unreadable" THEN Err(ReqwestError("body"))
  ELSE IF response.body.kind # "json" THEN Err(ReqwestError("send"))
  ELSE LET d == Deserialize(T, response.body.doc)
       IN  IF d.ok THEN d ELSE Err(ReqwestError("send"))

\* Response::json::<T>
response_json(T, response) ==
  IF response.body.kind = "unreadable" THEN Err(ReqwestError("body"))
  ELSE IF response.body.kind # "json" THEN Err(ReqwestError("decode"))
  ELSE LET d == Deserialize(T, response.body.doc)
       IN  IF d.ok THEN d ELSE Err(ReqwestError("decode"))

validate_and_deserialize_response(T, response) ==
  LET v == validate_response(response)
  IN  IF ~v.ok THEN v ELSE response_json(T, v.v)

\* the inner value of whatever variant was decoded, which the match never
\* returns for another kind
MatchAnyVariant(response, response_kind) ==
  IF ~response.ok THEN response ELSE Ok(response.v.v)

\* the match of get_market_ids / get_market_ids_map / get_market_addresses on
\* the decoded variant
MatchMarketIdentifiersResponse(response, response_kind) ==
  IF ~response.ok THEN response
  ELSE IF response.v.variant = response_kind THEN Ok(response.v.v)
  ELSE Err(MarketIdsResponseError(response_kind))

\* into_iter().flat_map(|s| Pubkey::from_str(&s).ok()).collect()
FlatMapPubkeyFromStr(v) ==
  LET parsed == [i \in 1..Len(v) |-> PubkeyFromStr(v[i])]
      kept   == SelectSeq(parsed, LAMBDA r : r.ok)
  IN  [i \in 1..Len(kept) |-> kept[i].v]

\* the tail of get_unhealthy_margin_accounts
UnhealthyMarginAccounts(response) ==
  IF ~response.ok THEN response ELSE Ok(FlatMapPubkeyFromStr(response.v))

\* .map(Into::into) on the decoded internal instruction response
MapInstructionInfo(response) ==
  IF ~response.ok THEN response ELSE Ok(InstructionInfoFrom(response.v))

MapCreateMarginAccountInstructionsResponse(response) ==
  IF ~response.ok THEN response
  ELSE Ok(CreateMarginAccountInstructionsResponseFrom(response.v))

MarketIdsMethods == {"get_market_ids", "get_market_ids_map", "get_market_addresses"}

MarginAccountMethods ==
  {"get_margin_account", "get_margin_account_from_id", "get_margin_account_from_address"}

MarketMethods == {"get_market", "get_market_from_id", "get_market_from_address"}

MarketsMethods == {"get_markets", "get_markets_from_addresses", "get_markets_from_ids"}

TransactionMethods ==
  {"get_close_margin_account_transaction", "get_deposit_margin_transaction",
   "get_withdraw_margin_transaction", "get_modify_position_transaction",
   "get_close_position_transaction", "get_liquidate_transaction"}

InstructionsMethods ==
  {"get_close_margin_account_instructions", "get_deposit_margin_instructions",
   "get_withdraw_margin_instructions", "get_modify_position_instructions",
   "get_close_position_instructions", "get_liquidate_instructions"}

\* the type every method hands to validate_and_deserialize_response
ResponseShape(method) ==
  CASE method = "get_exchange" -> ExchangeInfo
    [] method = "get_exponents" -> TMap(TSigned(I32Bytes))
    [] method \in MarketIdsMethods -> MarketIdentifiersResponse
    [] method \in MarginAccountMethods -> MarginAccountInfo
    [] method = "get_margin_accounts" -> TVec(TOption(MarginAccountInfo))
    [] method = "get_unhealthy_margin_accounts" -> TVec(TString)
    [] method \in MarketMethods -> MarketInfo
    [] method \in MarketsMethods -> TVec(MarketInfo)
    [] method = "get_create_margin_account_transaction" ->
         CreateMarginAccountTransactionResponse
    [] method = "get_create_margin_account_instructions" ->
         CreateMarginAccountInstructionsResponseInternal
    [] method \in TransactionMethods -> TransactionInfo
    [] method \in InstructionsMethods -> InstructionInfoInternal
    [] method = "get_modify_position_quote" -> ModifyPositionQuote

\* what every method does with the decoded response before it returns
Returned(method, response) ==
  CASE method = "get_market_ids" -> MatchMarketIdentifiersResponse(response, "Ids")
    [] method = "get_market_ids_map" -> MatchMarketIdentifiersResponse(response, "Map")
    [] method = "get_market_addresses" ->
         MatchMarketIdentifiersResponse(response, "Addresses")
    [] method = "get_unhealthy_margin_accounts" -> UnhealthyMarginAccounts(response)
    [] method = "get_create_margin_account_instructions" ->
         MapCreateMarginAccountInstructionsResponse(response)
    [] method \in InstructionsMethods -> MapInstructionInfo(response)
    [] OTHER -> response

\* ------------------------------------------------------------------------
\* The values the calls and the transport are given
\* ------------------------------------------------------------------------

\* the longest list handed to a batch method
MaxBatch == 2

\* a small number n < 65536 at a width of w bytes, and the largest number
Unsigned(n, w) ==
  [i \in 1..w |-> IF i = 1 THEN n % 256 ELSE IF i = 2 THEN n \div 256 ELSE 0]

MaxUnsigned(w) == [i \in 1..w |-> 255]

\* i128: -1, and the least value
MinusOne == MaxUnsigned(I128Bytes)

MinI128 == [i \in 1..I128Bytes |-> IF i = I128Bytes THEN 128 ELSE 0]

\* three addresses with their canonical texts: the all-zero address, whose
\* text is made of the digit 1 only, and two others
SystemProgram == Zeros(PUBKEY_BYTES)

SystemProgramText ==
  <<"1", "1", "1", "1", "1", "1", "1", "1", "1", "1", "1", "1", "1", "1",
    "1", "1", "1", "1", "1", "1", "1", "1", "1", "1", "1", "1", "1", "1",
    "1", "1", "1", "1">>

KeyA ==
  <<48, 85, 122, 159, 196, 233, 14, 51, 88, 125, 162, 199, 236, 17, 54, 91,
    128, 165, 202, 239, 20, 57, 94, 131, 168, 205, 242, 23, 60, 97, 134, 171>>

KeyAText ==
  <<"4", "F", "g", "A", "i", "e", "k", "y", "5", "s", "A", "A", "G", "R",
    "6", "u", "7", "W", "N", "K", "t", "2", "i", "6", "R", "y", "P", "G",
    "7", "a", "p", "K", "x", "X", "F", "F", "X", "G", "c", "V", "5", "2",
    "s", "t">>

KeyB ==
  <<0, 96, 187, 22, 113, 204, 39, 130, 221, 56, 147, 238, 73, 164, 255, 90,
    181, 16, 107, 198, 33, 124, 215, 50, 141, 232, 67, 158, 249, 84, 175, 10>>

KeyBText ==
  <<"1", "2", "U", "Y", "r", "a", "N", "p", "q", "c", "h", "g", "w", "T",
    "K", "u", "2", "U", "D", "K", "V", "v", "U", "A", "F", "b", "o", "H",
    "n", "f", "s", "B", "w", "f", "A", "N", "6", "S", "1", "T", "b", "t",
    "v", "m">>

\* texts that are no address: characters outside the alphabet, and a text
\* that spells fewer bytes than an address has
BadAlphabetText == <<"0", "O", "I", "l">>

ShortText == <<"a", "b", "c">>

Pubkeys == {SystemProgram, KeyA, KeyB}

Owners == {KeyA, SystemProgram}

MarginAccountIds == {Unsigned(7, U32Bytes), MaxUnsigned(U32Bytes)}

MarginAccountIdentifiers == {Id(Unsigned(7, U32Bytes)), Address(KeyB)}

MarketIds == {Unsigned(1, U32Bytes), MaxUnsigned(U32Bytes)}

MarketIdentifiers == {Id(MaxUnsigned(U32Bytes)), Address(SystemProgram)}

MarginAmounts == {Zeros(U64Bytes), MaxUnsigned(U64Bytes)}

SettlementRequestIds == {None, Some(Unsigned(3, U64Bytes))}

KeeperTips == {None, Some(MaxUnsigned(U64Bytes))}

SizeDeltas == {MinusOne, Unsigned(5, I128Bytes)}

SlippageSettings ==
  {AcceptablePrice(Zeros(U64Bytes)), AcceptablePrice(MaxUnsigned(U64Bytes)),
   SlippageToleranceBps(Unsigned(50, U16Bytes))}

\* the lists of at most n elements of S
ListsUpTo(S, n) == UNION {[1..k -> S] : k \in 0..n}

\* the configurations a client is built from
Configs ==
  [base_url : {"https://api.example/v3"},
   exchange_id : {None, Some(Id(Unsigned(7, U64Bytes))), Some(Address(KeyB))},
   priority_fee_percentile : {None, Some(Unsigned(50, U16Bytes))}]

\* the statuses a response comes with
Statuses == {199, 200, 299, 300, 404}

\* ---- documents a server may answer with

TransactionDoc ==
  JObj(<<
    <<<<"transaction">>, JStr(<<"A", "Q", "I", "D", "B", "A", "=", "=">>)>>,
    <<<<"total_required_lamports">>, JNum(<<"1", "8", "4", "4", "6", "7", "4", "4", "0", "7", "3", "7", "0", "9", "5", "5", "1", "6", "1", "5">>)>>,
    <<<<"required_compute_lamports">>, JNum(<<"5", "0", "0", "0">>)>>,
    <<<<"required_rent_lamports">>, JNum(<<"0">>)>>,
    <<<<"cu_limit">>, JNum(<<"2", "0", "0", "0", "0", "0">>)>>>>)

TransactionDocEmpty ==
  JObj(<<
    <<<<"transaction">>, JStr(<<>>)>>,
    <<<<"total_required_lamports">>, JNum(<<"1", "8", "4", "4", "6", "7", "4", "4", "0", "7", "3", "7", "0", "9", "5", "5", "1", "6", "1", "5">>)>>,
    <<<<"required_compute_lamports">>, JNum(<<"5", "0", "0", "0">>)>>,
    <<<<"required_rent_lamports">>, JNum(<<"0">>)>>,
    <<<<"cu_limit">>, JNum(<<"4", "2", "9", "4", "9", "6", "7", "2", "9", "5">>)>>>>)

\* a transaction that is no base64
TransactionDocBadBase64 ==
  JObj(<<
    <<<<"transaction">>, JStr(<<"A", "Q", "I", "D", "=", "A", "=", "=">>)>>,
    <<<<"total_required_lamports">>, JNum(<<"1", "8", "4", "4", "6", "7", "4", "4", "0", "7", "3", "7", "0", "9", "5", "5", "1", "6", "1", "5">>)>>,
    <<<<"required_compute_lamports">>, JNum(<<"5", "0", "0", "0">>)>>,
    <<<<"required_rent_lamports">>, JNum(<<"0">>)>>,
    <<<<"cu_limit">>, JNum(<<"2", "0", "0", "0", "0", "0">>)>>>>)

\* a cu_limit beyond u32
TransactionDocCuLimitTooWide ==
  JObj(<<
    <<<<"transaction">>, JStr(<<"A", "Q", "I", "D", "B", "A", "=", "=">>)>>,
    <<<<"total_required_lamports">>, JNum(<<"1", "8", "4", "4", "6", "7", "4", "4", "0", "7", "3", "7", "0", "9", "5", "5", "1", "6", "1", "5">>)>>,
    <<<<"required_compute_lamports">>, JNum(<<"5", "0", "0", "0">>)>>,
    <<<<"required_rent_lamports">>, JNum(<<"0">>)>>,
    <<<<"cu_limit">>, JNum(<<"4", "2", "9", "4", "9", "6", "7", "2", "9", "6">>)>>>>)

\* a lamports field sent as text
TransactionDocLamportsAsText ==
  JObj(<<
    <<<<"transaction">>, JStr(<<"A", "Q", "I", "D", "B", "A", "=", "=">>)>>,
    <<<<"total_required_lamports">>, JStr(<<"1", "8", "4", "4", "6", "7", "4", "4", "0", "7", "3", "7", "0", "9", "5", "5", "1", "6", "1", "5">>)>>,
    <<<<"required_compute_lamports">>, JNum(<<"5", "0", "0", "0">>)>>,
    <<<<"required_rent_lamports">>, JNum(<<"0">>)>>,
    <<<<"cu_limit">>, JNum(<<"2", "0", "0", "0", "0", "0">>)>>>>)

AccountDoc1 ==
  JObj(<<
    <<<<"pubkey">>, JStr(KeyBText)>>,
    <<<<"is_signer">>, JBool(TRUE)>>,
    <<<<"is_writable">>, JBool(FALSE)>>>>)

AccountDoc2 ==
  JObj(<<
    <<<<"pubkey">>, JStr(SystemProgramText)>>,
    <<<<"is_signer">>, JBool(FALSE)>>,
    <<<<"is_writable">>, JBool(TRUE)>>>>)

AccountDoc3 ==
  JObj(<<
    <<<<"pubkey">>, JStr(KeyAText)>>,
    <<<<"is_signer">>, JBool(TRUE)>>,
    <<<<"is_writable">>, JBool(TRUE)>>>>)

AccountDocBadPubkey ==
  JObj(<<
    <<<<"pubkey">>, JStr(ShortText)>>,
    <<<<"is_signer">>, JBool(TRUE)>>,
    <<<<"is_writable">>, JBool(TRUE)>>>>)

InstructionDoc1 ==
  JObj(<<
    <<<<"program_id">>, JStr(KeyAText)>>,
    <<<<"accounts">>, JArr(<<AccountDoc1,
                  AccountDoc2>>)>>,
    <<<<"data">>, JStr(<<"A", "Q", "I", "D", "B", "A", "=", "=">>)>>>>)

InstructionDoc2 ==
  JObj(<<
    <<<<"program_id">>, JStr(SystemProgramText)>>,
    <<<<"accounts">>, JArr(<<>>)>>,
    <<<<"data">>, JStr(<<>>)>>>>)

InstructionDoc3 ==
  JObj(<<
    <<<<"program_id">>, JStr(KeyBText)>>,
    <<<<"accounts">>, JArr(<<AccountDoc3>>)>>,
    <<<<"data">>, JStr(<<"/", "w", "=", "=">>)>>>>)

InstructionDocBadAccount ==
  JObj(<<
    <<<<"program_id">>, JStr(KeyAText)>>,
    <<<<"accounts">>, JArr(<<AccountDoc1,
                  AccountDocBadPubkey>>)>>,
    <<<<"data">>, JStr(<<>>)>>>>)

InstructionInfoDoc ==
  JObj(<<
    <<<<"instructions">>, JObj(<<
             <<<<"v3_instructions">>, JArr(<<InstructionDoc1,
                           InstructionDoc2>>)>>,
             <<<<"compute_budget_instructions">>, JArr(<<InstructionDoc3>>)>>>>)>>,
    <<<<"total_required_lamports">>, JNum(<<"7">>)>>,
    <<<<"required_compute_lamports">>, JNum(<<"1", "8", "4", "4", "6", "7", "4", "4", "0", "7", "3", "7", "0", "9", "5", "5", "1", "6", "1", "5">>)>>,
    <<<<"required_rent_lamports">>, JNum(<<"0">>)>>,
    <<<<"cu_limit">>, JNum(<<"1", "4", "0", "0", "0", "0", "0">>)>>>>)

\* other lists, in another order
InstructionInfoDocSwapped ==
  JObj(<<
    <<<<"instructions">>, JObj(<<
             <<<<"v3_instructions">>, JArr(<<InstructionDoc3>>)>>,
             <<<<"compute_budget_instructions">>, JArr(<<InstructionDoc2,
                           InstructionDoc1>>)>>>>)>>,
    <<<<"total_required_lamports">>, JNum(<<"7">>)>>,
    <<<<"required_compute_lamports">>, JNum(<<"1", "8", "4", "4", "6", "7", "4", "4", "0", "7", "3", "7", "0", "9", "5", "5", "1", "6", "1", "5">>)>>,
    <<<<"required_rent_lamports">>, JNum(<<"0">>)>>,
    <<<<"cu_limit">>, JNum(<<"1", "4", "0", "0", "0", "0", "0">>)>>>>)

InstructionInfoDocNoInstructions ==
  JObj(<<
    <<<<"instructions">>, JObj(<<
             <<<<"v3_instructions">>, JArr(<<>>)>>,
             <<<<"compute_budget_instructions">>, JArr(<<>>)>>>>)>>,
    <<<<"total_required_lamports">>, JNum(<<"7">>)>>,
    <<<<"required_compute_lamports">>, JNum(<<"1", "8", "4", "4", "6", "7", "4", "4", "0", "7", "3", "7", "0", "9", "5", "5", "1", "6", "1", "5">>)>>,
    <<<<"required_rent_lamports">>, JNum(<<"0">>)>>,
    <<<<"cu_limit">>, JNum(<<"1", "4", "0", "0", "0", "0", "0">>)>>>>)

InstructionInfoDocBadAccount ==
  JObj(<<
    <<<<"instructions">>, JObj(<<
             <<<<"v3_instructions">>, JArr(<<InstructionDoc1,
                           InstructionDocBadAccount>>)>>,
             <<<<"compute_budget_instructions">>, JArr(<<InstructionDoc3>>)>>>>)>>,
    <<<<"total_required_lamports">>, JNum(<<"7">>)>>,
    <<<<"required_compute_lamports">>, JNum(<<"1", "8", "4", "4", "6", "7", "4", "4", "0", "7", "3", "7", "0", "9", "5", "5", "1", "6", "1", "5">>)>>,
    <<<<"required_rent_lamports">>, JNum(<<"0">>)>>,
    <<<<"cu_limit">>, JNum(<<"1", "4", "0", "0", "0", "0", "0">>)>>>>)

CreateMarginAccountTransactionDoc ==
  JObj(<<
    <<<<"transaction">>, JStr(<<"/", "w", "=", "=">>)>>,
    <<<<"total_required_lamports">>, JNum(<<"1">>)>>,
    <<<<"required_compute_lamports">>, JNum(<<"2">>)>>,
    <<<<"required_rent_lamports">>, JNum(<<"3">>)>>,
    <<<<"margin_account_address">>, JStr(KeyAText)>>,
    <<<<"margin_account_id">>, JNum(<<"7">>)>>>>)

CreateMarginAccountTransactionDocBadAddress ==
  JObj(<<
    <<<<"transaction">>, JStr(<<"/", "w", "=", "=">>)>>,
    <<<<"total_required_lamports">>, JNum(<<"1">>)>>,
    <<<<"required_compute_lamports">>, JNum(<<"2">>)>>,
    <<<<"required_rent_lamports">>, JNum(<<"3">>)>>,
    <<<<"margin_account_address">>, JStr(BadAlphabetText)>>,
    <<<<"margin_account_id">>, JNum(<<"7">>)>>>>)

CreateMarginAccountInstructionsDoc ==
  JObj(<<
    <<<<"instructions">>, JObj(<<
             <<<<"v3_instructions">>, JArr(<<InstructionDoc3>>)>>,
             <<<<"compute_budget_instructions">>, JArr(<<InstructionDoc2,
                           InstructionDoc1>>)>>>>)>>,
    <<<<"total_required_lamports">>, JNum(<<"1">>)>>,
    <<<<"required_compute_lamports">>, JNum(<<"2">>)>>,
    <<<<"required_rent_lamports">>, JNum(<<"3">>)>>,
    <<<<"margin_account_address">>, JStr(KeyBText)>>,
    <<<<"margin_account_id">>, JNum(<<"4", "2", "9", "4", "9", "6", "7", "2", "9", "5">>)>>>>)

CreateMarginAccountInstructionsDocIdAsText ==
  JObj(<<
    <<<<"instructions">>, JObj(<<
             <<<<"v3_instructions">>, JArr(<<InstructionDoc3>>)>>,
             <<<<"compute_budget_instructions">>, JArr(<<InstructionDoc2,
                           InstructionDoc1>>)>>>>)>>,
    <<<<"total_required_lamports">>, JNum(<<"1">>)>>,
    <<<<"required_compute_lamports">>, JNum(<<"2">>)>>,
    <<<<"required_rent_lamports">>, JNum(<<"3">>)>>,
    <<<<"margin_account_address">>, JStr(KeyBText)>>,
    <<<<"margin_account_id">>, JStr(<<"7">>)>>>>)

MarginsDoc ==
  JObj(<<
    <<<<"available_margin">>, JStr(<<"-", "1", "7", "0", "1", "4", "1", "1", "8", "3", "4", "6", "0", "4", "6", "9", "2", "3", "1", "7", "3", "1", "6", "8", "7", "3", "0", "3", "7", "1", "5", "8", "8", "4", "1", "0", "5", "7", "2", "8">>)>>,
    <<<<"total_required_margin">>, JStr(<<"1", "0">>)>>,
    <<<<"required_initial_margin">>, JStr(<<"6">>)>>,
    <<<<"required_maintenance_margin">>, JStr(<<"3">>)>>,
    <<<<"required_liquidation_fee_margin">>, JStr(<<"1">>)>>,
    <<<<"accumulated_liquidation_fees">>, JStr(<<"0">>)>>>>)

PositionInfoDoc ==
  JObj(<<
    <<<<"size">>, JStr(<<"-", "2", "5">>)>>,
    <<<<"last_interaction_price">>, JStr(<<"3", "4", "0", "2", "8", "2", "3", "6", "6", "9", "2", "0", "9", "3", "8", "4", "6", "3", "4", "6", "3", "3", "7", "4", "6", "0", "7", "4", "3", "1", "7", "6", "8", "2", "1", "1", "4", "5", "5">>)>>,
    <<<<"last_interaction_funding_per_unit">>, JStr(<<"0", ".", "5">>)>>,
    <<<<"market_id">>, JNum(<<"4">>)>>>>)

MarginAccountInfoDoc ==
  JObj(<<
    <<<<"address">>, JStr(KeyAText)>>,
    <<<<"id">>, JNum(<<"7">>)>>,
    <<<<"active_market_ids">>, JArr(<<JNum(<<"4">>)>>)>>,
    <<<<"positions">>, JArr(<<PositionInfoDoc>>)>>,
    <<<<"margins">>, MarginsDoc>>,
    <<<<"margin">>, JStr(<<"1", "8", "4", "4", "6", "7", "4", "4", "0", "7", "3", "7", "0", "9", "5", "5", "1", "6", "1", "5">>)>>,
    <<<<"excess_margin">>, JStr(<<"0">>)>>,
    <<<<"exchange">>, JStr(KeyBText)>>,
    <<<<"owner">>, JStr(SystemProgramText)>>,
    <<<<"delegate">>, JStr(KeyAText)>>,
    <<<<"can_close">>, JBool(FALSE)>>,
    <<<<"can_liquidate">>, JBool(FALSE)>>,
    <<<<"in_liquidation">>, JBool(TRUE)>>>>)

MarginAccountInfoDocOther ==
  JObj(<<
    <<<<"address">>, JStr(KeyBText)>>,
    <<<<"id">>, JNum(<<"4", "2", "9", "4", "9", "6", "7", "2", "9", "5">>)>>,
    <<<<"active_market_ids">>, JArr(<<>>)>>,
    <<<<"positions">>, JArr(<<>>)>>,
    <<<<"margins">>, MarginsDoc>>,
    <<<<"margin">>, JStr(<<"1", "2">>)>>,
    <<<<"excess_margin">>, JStr(<<"0">>)>>,
    <<<<"exchange">>, JStr(KeyBText)>>,
    <<<<"owner">>, JStr(KeyAText)>>,
    <<<<"delegate">>, JStr(KeyAText)>>,
    <<<<"can_close">>, JBool(TRUE)>>,
    <<<<"can_liquidate">>, JBool(FALSE)>>,
    <<<<"in_liquidation">>, JBool(FALSE)>>>>)

\* a string-encoded field sent as a number
MarginAccountInfoDocMarginAsNumber ==
  JObj(<<
    <<<<"address">>, JStr(KeyAText)>>,
    <<<<"id">>, JNum(<<"7">>)>>,
    <<<<"active_market_ids">>, JArr(<<JNum(<<"4">>)>>)>>,
    <<<<"positions">>, JArr(<<PositionInfoDoc>>)>>,
    <<<<"margins">>, MarginsDoc>>,
    <<<<"margin">>, JNum(<<"1", "2">>)>>,
    <<<<"excess_margin">>, JStr(<<"0">>)>>,
    <<<<"exchange">>, JStr(KeyBText)>>,
    <<<<"owner">>, JStr(SystemProgramText)>>,
    <<<<"delegate">>, JStr(KeyAText)>>,
    <<<<"can_close">>, JBool(FALSE)>>,
    <<<<"can_liquidate">>, JBool(FALSE)>>,
    <<<<"in_liquidation">>, JBool(TRUE)>>>>)

PriceFeedInfoDoc ==
  JObj(<<
    <<<<"price">>, JStr(<<"1", "2", "3", "4", "5", "6">>)>>,
    <<<<"expo">>, JNum(<<"-", "8">>)>>>>)

MarketInfoAccountingDoc ==
  JObj(<<
    <<<<"last_utilized_liquidation_capacity">>, JStr(<<"0">>)>>,
    <<<<"size">>, JStr(<<"1", "0", "0">>)>>,
    <<<<"skew">>, JStr(<<"-", "3">>)>>,
    <<<<"last_funding_rate">>, JStr(<<"0", ".", "0", "1">>)>>,
    <<<<"last_funding_per_unit">>, JStr(<<"-", "0", ".", "2">>)>>,
    <<<<"last_time_funding_updated">>, JNum(<<"1", "7", "0", "0", "0", "0", "0", "0", "0", "0">>)>>,
    <<<<"first_liquidation_epoch_start_time">>, JNum(<<"0">>)>>,
    <<<<"last_liquidation_epoch_index">>, JNum(<<"1", "8", "4", "4", "6", "7", "4", "4", "0", "7", "3", "7", "0", "9", "5", "5", "1", "6", "1", "5">>)>>,
    <<<<"last_time_liquidation_capacity_updated">>, JNum(<<"5">>)>>>>)

MarketInfoSettingsDoc ==
  JObj(<<
    <<<<"min_position_margin">>, JStr(<<"1">>)>>,
    <<<<"skew_scale">>, JStr(<<"3", "4", "0", "2", "8", "2", "3", "6", "6", "9", "2", "0", "9", "3", "8", "4", "6", "3", "4", "6", "3", "3", "7", "4", "6", "0", "7", "4", "3", "1", "7", "6", "8", "2", "1", "1", "4", "5", "5">>)>>,
    <<<<"max_side_size">>, JStr(<<"0">>)>>,
    <<<<"max_liquidation_limit_accumulation_multiplier">>, JNum(<<"3">>)>>,
    <<<<"max_seconds_in_liquidation_epoch">>, JNum(<<"6", "0">>)>>,
    <<<<"initial_margin_ratio">>, JNum(<<"4", "2", "9", "4", "9", "6", "7", "2", "9", "5">>)>>,
    <<<<"maker_fee_rate">>, JNum(<<"1">>)>>,
    <<<<"taker_fee_rate">>, JNum(<<"2">>)>>,
    <<<<"max_funding_velocity">>, JNum(<<"3">>)>>,
    <<<<"liquidation_fee_rate">>, JNum(<<"4">>)>>,
    <<<<"min_initial_margin_ratio">>, JNum(<<"5">>)>>,
    <<<<"maintenance_margin_proportion">>, JNum(<<"6">>)>>,
    <<<<"max_liquidation_pd">>, JNum(<<"6", "5", "5", "3", "5">>)>>,
    <<<<"authorized_liquidator">>, JStr(SystemProgramText)>>>>)

MarketInfoDoc ==
  JObj(<<
    <<<<"address">>, JStr(KeyBText)>>,
    <<<<"price_feed_info">>, PriceFeedInfoDoc>>,
    <<<<"accounting">>, MarketInfoAccountingDoc>>,
    <<<<"settings">>, MarketInfoSettingsDoc>>,
    <<<<"id">>, JNum(<<"4">>)>>,
    <<<<"exchange">>, JStr(KeyAText)>>,
    <<<<"price_feed">>, JStr(KeyBText)>>,
    <<<<"status">>, JNum(<<"2", "5", "5">>)>>>>)

MarketInfoDocOther ==
  JObj(<<
    <<<<"address">>, JStr(KeyAText)>>,
    <<<<"price_feed_info">>, PriceFeedInfoDoc>>,
    <<<<"accounting">>, MarketInfoAccountingDoc>>,
    <<<<"settings">>, MarketInfoSettingsDoc>>,
    <<<<"id">>, JNum(<<"1">>)>>,
    <<<<"exchange">>, JStr(KeyAText)>>,
    <<<<"price_feed">>, JStr(KeyBText)>>,
    <<<<"status">>, JNum(<<"0">>)>>>>)

\* a status beyond u8
MarketInfoDocStatusTooWide ==
  JObj(<<
    <<<<"address">>, JStr(KeyBText)>>,
    <<<<"price_feed_info">>, PriceFeedInfoDoc>>,
    <<<<"accounting">>, MarketInfoAccountingDoc>>,
    <<<<"settings">>, MarketInfoSettingsDoc>>,
    <<<<"id">>, JNum(<<"4">>)>>,
    <<<<"exchange">>, JStr(KeyAText)>>,
    <<<<"price_feed">>, JStr(KeyBText)>>,
    <<<<"status">>, JNum(<<"2", "5", "6">>)>>>>)

ExchangeInfoAccountingDoc ==
  JObj(<<
    <<<<"notional_open_interest">>, JStr(<<"3", "4", "0", "2", "8", "2", "3", "6", "6", "9", "2", "0", "9", "3", "8", "4", "6", "3", "4", "6", "3", "3", "7", "4", "6", "0", "7", "4", "3", "1", "7", "6", "8", "2", "1", "1", "4", "5", "5">>)>>,
    <<<<"last_time_locked_open_interest_accounting_refreshed">>, JStr(<<"1", "7", "0", "0", "0", "0", "0", "0", "0", "0">>)>>,
    <<<<"balance">>, JStr(<<"1">>)>>,
    <<<<"margin_balance">>, JStr(<<"2">>)>>,
    <<<<"lp_balance">>, JStr(<<"3">>)>>,
    <<<<"lp_shares">>, JStr(<<"4">>)>>,
    <<<<"protocol_fees">>, JStr(<<"5">>)>>,
    <<<<"unsettled_collateral_amount">>, JStr(<<"1", "8", "4", "4", "6", "7", "4", "4", "0", "7", "3", "7", "0", "9", "5", "5", "1", "6", "1", "5">>)>>>>)

ExchangeInfoSettingsDoc ==
  JObj(<<
    <<<<"min_lp_duration">>, JNum(<<"1">>)>>,
    <<<<"settlement_delay">>, JNum(<<"2">>)>>,
    <<<<"min_liquidation_fee">>, JStr(<<"3">>)>>,
    <<<<"max_liquidation_fee">>, JStr(<<"4">>)>>,
    <<<<"locked_open_interest_staleness_threshold">>, JNum(<<"5">>)>>,
    <<<<"protocol_fee_rate">>, JNum(<<"6">>)>>,
    <<<<"locked_open_interest_ratio">>, JNum(<<"7">>)>>,
    <<<<"max_keeper_tip_rate">>, JNum(<<"8">>)>>>>)

ExchangeInfoDoc ==
  JObj(<<
    <<<<"address">>, JStr(KeyAText)>>,
    <<<<"accounting">>, ExchangeInfoAccountingDoc>>,
    <<<<"settings">>, ExchangeInfoSettingsDoc>>,
    <<<<"id">>, JStr(<<"0">>)>>,
    <<<<"market_ids">>, JArr(<<JNum(<<"1">>),
                  JNum(<<"4">>)>>)>>,
    <<<<"oracle_configs">>, JArr(<<JObj(<<
                    <<<<"kind">>, JStr(<<"Pyth">>)>>,
                    <<<<"program_id">>, JStr(KeyBText)>>>>),
                  JObj(<<
                    <<<<"kind">>, JStr(<<"PythV2">>)>>,
                    <<<<"program_id">>, JStr(SystemProgramText)>>>>)>>)>>,
    <<<<"status">>, JNum(<<"0">>)>>,
    <<<<"collateral_expo">>, JNum(<<"-", "6">>)>>,
    <<<<"collateral_mint">>, JStr(KeyBText)>>,
    <<<<"collateral_vault">>, JStr(KeyAText)>>,
    <<<<"admin">>, JStr(SystemProgramText)>>,
    <<<<"nominated_admin">>, JStr(SystemProgramText)>>,
    <<<<"authorized_settler">>, JStr(KeyAText)>>,
    <<<<"authorized_protocol_fees_collector">>, JStr(KeyBText)>>>>)

ExchangeInfoDocUnknownOracle ==
  JObj(<<
    <<<<"address">>, JStr(KeyAText)>>,
    <<<<"accounting">>, ExchangeInfoAccountingDoc>>,
    <<<<"settings">>, ExchangeInfoSettingsDoc>>,
    <<<<"id">>, JStr(<<"0">>)>>,
    <<<<"market_ids">>, JArr(<<JNum(<<"1">>),
                  JNum(<<"4">>)>>)>>,
    <<<<"oracle_configs">>, JArr(<<JObj(<<
                    <<<<"kind">>, JStr(<<"Switchboard">>)>>,
                    <<<<"program_id">>, JStr(KeyBText)>>>>)>>)>>,
    <<<<"status">>, JNum(<<"0">>)>>,
    <<<<"collateral_expo">>, JNum(<<"-", "6">>)>>,
    <<<<"collateral_mint">>, JStr(KeyBText)>>,
    <<<<"collateral_vault">>, JStr(KeyAText)>>,
    <<<<"admin">>, JStr(SystemProgramText)>>,
    <<<<"nominated_admin">>, JStr(SystemProgramText)>>,
    <<<<"authorized_settler">>, JStr(KeyAText)>>,
    <<<<"authorized_protocol_fees_collector">>, JStr(KeyBText)>>>>)

ExponentsDoc ==
  JObj(<<
    <<<<"BTC">>, JNum(<<"-", "8">>)>>,
    <<<<"SOL">>, JNum(<<"-", "9">>)>>,
    <<<<"USDC">>, JNum(<<"6">>)>>>>)

ExponentsDocNegativeZero ==
  JObj(<<
    <<<<"BTC">>, JNum(<<"-", "0">>)>>>>)

MarketIdsDoc ==
  JArr(<<JNum(<<"1">>),
         JNum(<<"4">>),
         JNum(<<"4", "2", "9", "4", "9", "6", "7", "2", "9", "5">>)>>)

MarketIdsDocEmpty ==
  JArr(<<>>)

\* an id beyond u32
MarketIdsDocTooWide ==
  JArr(<<JNum(<<"1">>),
         JNum(<<"4", "2", "9", "4", "9", "6", "7", "2", "9", "6">>)>>)

MarketAddressesDoc ==
  JArr(<<JStr(KeyAText),
         JStr(SystemProgramText),
         JStr(KeyBText)>>)

\* a list whose second entry is no address
MarketAddressesDocBadEntry ==
  JArr(<<JStr(KeyAText),
         JStr(ShortText),
         JStr(KeyBText)>>)

MarketIdsMapDoc ==
  JObj(<<
    <<<<"1">>, JStr(KeyAText)>>,
    <<<<"4", "2", "9", "4", "9", "6", "7", "2", "9", "5">>, JStr(KeyBText)>>>>)

MarketIdsMapDocEmpty ==
  JObj(<<>>)

\* a key beyond u32
MarketIdsMapDocBadKey ==
  JObj(<<
    <<<<"1">>, JStr(KeyAText)>>,
    <<<<"4", "2", "9", "4", "9", "6", "7", "2", "9", "6">>, JStr(KeyBText)>>>>)

MarginAccountsDoc ==
  JArr(<<MarginAccountInfoDoc,
         JNull,
         MarginAccountInfoDocOther>>)

MarginAccountsDocAllNull ==
  JArr(<<JNull,
         JNull>>)

MarginAccountsDocBadEntry ==
  JArr(<<JNull,
         MarginAccountInfoDocMarginAsNumber>>)

UnhealthyDoc ==
  JArr(<<JStr(KeyBText),
         JStr(KeyAText)>>)

\* a list whose second entry is no address
UnhealthyDocBadEntry ==
  JArr(<<JStr(KeyAText),
         JStr(BadAlphabetText),
         JStr(SystemProgramText)>>)

UnhealthyDocNotText ==
  JArr(<<JStr(KeyAText),
         JNum(<<"7">>)>>)

MarketsDoc ==
  JArr(<<MarketInfoDoc,
         MarketInfoDocOther>>)

MarketsDocNullEntry ==
  JArr(<<MarketInfoDoc,
         JNull>>)

QuoteDoc ==
  JObj(<<
    <<<<"price">>, JStr(<<"1", "0", "0">>)>>>>)

\* a body that is no JSON
DeniedBody == TextBody(<<"insufficient funds">>)

\* the documents the transport may answer a method with
Docs(method) ==
  CASE method = "get_exchange" -> {ExchangeInfoDoc, ExchangeInfoDocUnknownOracle}
    [] method = "get_exponents" -> {ExponentsDoc, ExponentsDocNegativeZero}
    [] method \in MarketIdsMethods ->
         {MarketIdsDoc, MarketIdsDocEmpty, MarketIdsDocTooWide, MarketAddressesDoc,
          MarketAddressesDocBadEntry, MarketIdsMapDoc, MarketIdsMapDocEmpty,
          MarketIdsMapDocBadKey}
    [] method \in MarginAccountMethods ->
         {MarginAccountInfoDoc, MarginAccountInfoDocOther,
          MarginAccountInfoDocMarginAsNumber}
    [] method = "get_margin_accounts" ->
         {MarginAccountsDoc, MarginAccountsDocAllNull, MarginAccountsDocBadEntry,
          JArr(<<>>)}
    [] method = "get_unhealthy_margin_accounts" ->
         {UnhealthyDoc, UnhealthyDocBadEntry, UnhealthyDocNotText, JArr(<<>>)}
    [] method \in MarketMethods ->
         {MarketInfoDoc, MarketInfoDocOther, MarketInfoDocStatusTooWide}
    [] method \in MarketsMethods -> {MarketsDoc, MarketsDocNullEntry, JArr(<<>>)}
    [] method = "get_create_margin_account_transaction" ->
         {CreateMarginAccountTransactionDoc, CreateMarginAccountTransactionDocBadAddress}
    [] method = "get_create_margin_account_instructions" ->
         {CreateMarginAccountInstructionsDoc, CreateMarginAccountInstructionsDocIdAsText}
    [] method \in TransactionMethods ->
         {TransactionDoc, TransactionDocEmpty, TransactionDocBadBase64,
          TransactionDocCuLimitTooWide, TransactionDocLamportsAsText}
    [] method \in InstructionsMethods ->
         {InstructionInfoDoc, InstructionInfoDocSwapped,
          InstructionInfoDocNoInstructions, InstructionInfoDocBadAccount}
    [] method = "get_modify_position_quote" -> {QuoteDoc, JNull}

Bodies(method) == {JsonBody(doc) : doc \in Docs(method)} \cup {DeniedBody, UnreadableBody}

\* ------------------------------------------------------------------------
\* The client as a state machine: a call builds its request and hands it to
\* the transport, the transport answers, the call validates and decodes the
\* answer and returns
\* ------------------------------------------------------------------------

OptionalOwners == {None} \cup {Some(k) : k \in Owners}

OptionalMarginAccountIds == {None} \cup {Some(n) : n \in MarginAccountIds}

VARIABLES
  client,      \* the ParclV3ApiClient
  pc,          \* where the call in progress stands
  method,      \* the method called
  args,        \* its arguments, under the method's name
  request,     \* the request handed to the transport
  response,    \* the answer of the transport
  decoded,     \* what validate_and_deserialize_response made of the answer
  result,      \* what the call returns
  family,      \* codec: the identifier family
  identifier,  \* codec: the identifier encoded
  wire,        \* codec: the JSON value on the wire
  parsed,      \* codec: what decoding the wire value gave
  ty,          \* scalar codec: the Rust type of the field
  value,       \* scalar codec: the value of the field
  encoded,     \* scalar codec: the JSON value the field is serialized to
  recovered,   \* scalar codec: what deserializing the JSON value gave
  calls        \* concurrent callers: the call each caller has in progress

clientVars == <<client, pc, method, args, request, response, decoded, result>>

codecVars == <<family, identifier, wire, parsed>>

scalarVars == <<ty, value, encoded, recovered>>

vars == <<client, pc, method, args, request, response, decoded, result,
          family, identifier, wire, parsed, ty, value, encoded, recovered,
          calls>>

NoArgs == [none |-> TRUE]

\* no call in progress: no method, no arguments
NoCall == <<"none", NoArgs>>

Init ==
  /\ client \in {new(config) : config \in Configs} \cup {default}
  /\ pc = "idle"
  /\ method = "none"
  /\ args = NoCall
  /\ request = NoValue
  /\ response = NoValue
  /\ decoded = NoValue
  /\ result = NoValue
  /\ family = "none"
  /\ identifier = NoValue
  /\ wire = NoValue
  /\ parsed = NoValue
  /\ ty = "none"
  /\ value = NoValue
  /\ encoded = NoValue
  /\ recovered = NoValue
  /\ calls = NoValue

\* the part every method begins with: the request is built and sent
Call(name, arguments, built) ==
  /\ pc = "idle"
  /\ pc' = "awaiting"
  /\ method' = name
  /\ args' = <<name, arguments>>
  /\ request' = built
  /\ UNCHANGED <<client, response, decoded, result, codecVars, scalarVars, calls>>

get_exchange ==
  Call("get_exchange", NoArgs, get_exchange_request(client))

get_exponents ==
  Call("get_exponents", NoArgs, get_exponents_request(client))

get_market_ids ==
  Call("get_market_ids", NoArgs, get_market_ids_request(client))

get_market_ids_map ==
  Call("get_market_ids_map", NoArgs, get_market_ids_map_request(client))

get_market_addresses ==
  Call("get_market_addresses", NoArgs, get_market_addresses_request(client))

get_margin_account ==
  \E margin_account_id \in MarginAccountIdentifiers, owner \in OptionalOwners :
    Call("get_margin_account",
         [margin_account_id |-> margin_account_id, owner |-> owner],
         get_margin_account_request(client, margin_account_id, owner))

get_margin_account_from_id ==
  \E owner \in Owners, margin_account_id \in MarginAccountIds :
    Call("get_margin_account_from_id",
         [owner |-> owner, margin_account_id |-> margin_account_id],
         get_margin_account_from_id_request(client, owner, margin_account_id))

get_margin_account_from_address ==
  \E address \in Pubkeys :
    Call("get_margin_account_from_address",
         [address |-> address],
         get_margin_account_from_address_request(client, address))

get_margin_accounts ==
  \E margin_accounts \in ListsUpTo(Pubkeys, MaxBatch) :
    Call("get_margin_accounts",
         [margin_accounts |-> margin_accounts],
         get_margin_accounts_request(client, margin_accounts))

get_unhealthy_margin_accounts ==
  Call("get_unhealthy_margin_accounts", NoArgs, get_unhealthy_margin_accounts_request(client))

get_market ==
  \E market_id \in MarketIdentifiers :
    Call("get_market",
         [market_id |-> market_id],
         get_market_request(client, market_id))

get_market_from_id ==
  \E market_id \in MarketIds :
    Call("get_market_from_id",
         [market_id |-> market_id],
         get_market_from_id_request(client, market_id))

get_market_from_address ==
  \E address \in Pubkeys :
    Call("get_market_from_address",
         [address |-> address],
         get_market_from_address_request(client, address))

get_markets ==
  \E market_ids \in ListsUpTo(MarketIdentifiers, MaxBatch) :
    Call("get_markets",
         [market_ids |-> market_ids],
         get_markets_request(client, market_ids))

get_markets_from_addresses ==
  \E addresses \in ListsUpTo(Owners, MaxBatch) :
    Call("get_markets_from_addresses",
         [addresses |-> addresses],
         get_markets_from_addresses_request(client, addresses))

get_markets_from_ids ==
  \E ids \in ListsUpTo(MarketIds, MaxBatch) :
    Call("get_markets_from_ids",
         [ids |-> ids],
         get_markets_from_ids_request(client, ids))

get_create_margin_account_transaction ==
  \E owner \in Owners, margin_account_id \in OptionalMarginAccountIds :
    Call("get_create_margin_account_transaction",
         [owner |-> owner, margin_account_id |-> margin_account_id],
         get_create_margin_account_transaction_request(client, owner, margin_account_id))

get_create_margin_account_instructions ==
  \E owner \in Owners, margin_account_id \in OptionalMarginAccountIds :
    Call("get_create_margin_account_instructions",
         [owner |-> owner, margin_account_id |-> margin_account_id],
         get_create_margin_account_instructions_request(client, owner, margin_account_id))

get_close_margin_account_transaction ==
  \E owner \in Owners, margin_account_id \in MarginAccountIdentifiers :
    Call("get_close_margin_account_transaction",
         [owner |-> owner, margin_account_id |-> margin_account_id],
         get_close_margin_account_transaction_request(client, owner, margin_account_id))

get_close_margin_account_instructions ==
  \E owner \in Owners, margin_account_id \in MarginAccountIdentifiers :
    Call("get_close_margin_account_instructions",
         [owner |-> owner, margin_account_id |-> margin_account_id],
         get_close_margin_account_instructions_request(client, owner, margin_account_id))

get_deposit_margin_transaction ==
  \E owner \in Owners, margin_account_id \in MarginAccountIdentifiers, margin \in MarginAmounts :
    Call("get_deposit_margin_transaction",
         [owner |-> owner, margin_account_id |-> margin_account_id, margin |-> margin],
         get_deposit_margin_transaction_request(client, owner, margin_account_id, margin))

get_deposit_margin_instructions ==
  \E owner \in Owners, margin_account_id \in MarginAccountIdentifiers, margin \in MarginAmounts :
    Call("get_deposit_margin_instructions",
         [owner |-> owner, margin_account_id |-> margin_account_id, margin |-> margin],
         get_deposit_margin_instructions_request(client, owner, margin_account_id, margin))

get_withdraw_margin_transaction ==
  \E owner \in Owners, margin_account_id \in MarginAccountIdentifiers, margin \in MarginAmounts, settlement_request_id \in SettlementRequestIds, keeper_tip \in KeeperTips :
    Call("get_withdraw_margin_transaction",
         [owner |-> owner, margin_account_id |-> margin_account_id, margin |-> margin, settlement_request_id |-> settlement_request_id, keeper_tip |-> keeper_tip],
         get_withdraw_margin_transaction_request(client, owner, margin_account_id, margin, settlement_request_id, keeper_tip))

get_withdraw_margin_instructions ==
  \E owner \in Owners, margin_account_id \in MarginAccountIdentifiers, margin \in MarginAmounts, settlement_request_id \in SettlementRequestIds, keeper_tip \in KeeperTips :
    Call("get_withdraw_margin_instructions",
         [owner |-> owner, margin_account_id |-> margin_account_id, margin |-> margin, settlement_request_id |-> settlement_request_id, keeper_tip |-> keeper_tip],
         get_withdraw_margin_instructions_request(client, owner, margin_account_id, margin, settlement_request_id, keeper_tip))

get_modify_position_transaction ==
  \E owner \in Owners, margin_account_id \in MarginAccountIdentifiers, market_id \in MarketIds, size_delta \in SizeDeltas, slippage_setting \in SlippageSettings :
    Call("get_modify_position_transaction",
         [owner |-> owner, margin_account_id |-> margin_account_id, market_id |-> market_id, size_delta |-> size_delta, slippage_setting |-> slippage_setting],
         get_modify_position_transaction_request(client, owner, margin_account_id, market_id, size_delta, slippage_setting))

get_modify_position_instructions ==
  \E owner \in Owners, margin_account_id \in MarginAccountIdentifiers, market_id \in MarketIds, size_delta \in SizeDeltas, slippage_setting \in SlippageSettings :
    Call("get_modify_position_instructions",
         [owner |-> owner, margin_account_id |-> margin_account_id, market_id |-> market_id, size_delta |-> size_delta, slippage_setting |-> slippage_setting],
         get_modify_position_instructions_request(client, owner, margin_account_id, market_id, size_delta, slippage_setting))

get_close_position_transaction ==
  \E owner \in Owners, margin_account_id \in MarginAccountIdentifiers, market_id \in MarketIds, slippage_setting \in SlippageSettings :
    Call("get_close_position_transaction",
         [owner |-> owner, margin_account_id |-> margin_account_id, market_id |-> market_id, slippage_setting |-> slippage_setting],
         get_close_position_transaction_request(client, owner, margin_account_id, market_id, slippage_setting))

get_close_position_instructions ==
  \E owner \in Owners, margin_account_id \in MarginAccountIdentifiers, market_id \in MarketIds, slippage_setting \in SlippageSettings :
    Call("get_close_position_instructions",
         [owner |-> owner, margin_account_id |-> margin_account_id, market_id |-> market_id, slippage_setting |-> slippage_setting],
         get_close_position_instructions_request(client, owner, margin_account_id, market_id, slippage_setting))

get_liquidate_transaction ==
  \E margin_account_to_liquidate \in Pubkeys, liquidator \in Owners, liquidator_margin_account_id \in MarginAccountIdentifiers :
    Call("get_liquidate_transaction",
         [margin_account_to_liquidate |-> margin_account_to_liquidate, liquidator |-> liquidator, liquidator_margin_account_id |-> liquidator_margin_account_id],
         get_liquidate_transaction_request(client, margin_account_to_liquidate, liquidator, liquidator_margin_account_id))

get_liquidate_instructions ==
  \E margin_account_to_liquidate \in Pubkeys, liquidator \in Owners, liquidator_margin_account_id \in MarginAccountIdentifiers :
    Call("get_liquidate_instructions",
         [margin_account_to_liquidate |-> margin_account_to_liquidate, liquidator |-> liquidator, liquidator_margin_account_id |-> liquidator_margin_account_id],
         get_liquidate_instructions_request(client, margin_account_to_liquidate, liquidator, liquidator_margin_account_id))

get_modify_position_quote ==
  \E owner \in Owners, margin_account_id \in MarginAccountIdentifiers, market_id \in MarketIds, size_delta \in SizeDeltas, slippage_setting \in SlippageSettings :
    Call("get_modify_position_quote",
         [owner |-> owner, margin_account_id |-> margin_account_id, market_id |-> market_id, size_delta |-> size_delta, slippage_setting |-> slippage_setting],
         get_modify_position_quote_request(client, owner, margin_account_id, market_id, size_delta, slippage_setting))

\* send().await: the transport fails, or answers with a status and a body;
\* the request and the arguments moved into it are gone
Transport ==
  /\ pc = "awaiting"
  /\ \/ response' = [sent |-> FALSE]
     \/ \E status \in Statuses, body \in Bodies(method) :
          response' = [sent |-> TRUE, status |-> status, body |-> body]
  /\ pc' = "responded"
  /\ request' = NoValue
  /\ args' = NoCall
  /\ UNCHANGED <<client, method, decoded, result, codecVars, scalarVars, calls>>

\* a method that, when its round trip fails, sends its request once more
\* instead of returning the failure
CompleteRetrying ==
  /\ pc = "responded"
  /\ LET d == IF response.sent
              THEN validate_and_deserialize_response(ResponseShape(method), response)
              ELSE Err(ReqwestError("send"))
     IN  IF d.ok
         THEN /\ decoded' = d
              /\ result' = Returned(method, d)
              /\ pc' = "done"
              /\ UNCHANGED <<request, response>>
         ELSE /\ pc' = "awaiting"
              /\ request' = [retry |-> TRUE]
              /\ response' = NoValue
              /\ UNCHANGED <<decoded, result>>
  /\ UNCHANGED <<client, method, args, codecVars, scalarVars, calls>>

\* the rest of the method: `?` on the send, validate_and_deserialize_response
\* at the method's type, and the method's own tail
Complete ==
  /\ pc = "responded"
  /\ decoded' = IF response.sent
                THEN validate_and_deserialize_response(ResponseShape(method), response)
                ELSE Err(ReqwestError("send"))
  /\ result' = Returned(method, decoded')
  /\ pc' = "done"
  /\ UNCHANGED <<client, method, args, request, response, codecVars, scalarVars, calls>>

\* a return that leaves the client on the default exchange
ReturnResettingExchange ==
  /\ pc = "done"
  /\ pc' = "idle"
  /\ method' = "none"
  /\ response' = NoValue
  /\ decoded' = NoValue
  /\ result' = NoValue
  /\ client' = [client EXCEPT !.exchange_id = ExchangeIdentifierDefault]
  /\ UNCHANGED <<args, request, codecVars, scalarVars, calls>>

\* the caller has the result; the client is ready for the next call
Return ==
  /\ pc = "done"
  /\ pc' = "idle"
  /\ method' = "none"
  /\ response' = NoValue
  /\ decoded' = NoValue
  /\ result' = NoValue
  /\ UNCHANGED <<client, args, request, codecVars, scalarVars, calls>>

Next ==
  \/ get_exchange
  \/ get_exponents
  \/ get_market_ids
  \/ get_market_ids_map
  \/ get_market_addresses
  \/ get_margin_account
  \/ get_margin_account_from_id
  \/ get_margin_account_from_address
  \/ get_margin_accounts
  \/ get_unhealthy_margin_accounts
  \/ get_market
  \/ get_market_from_id
  \/ get_market_from_address
  \/ get_markets
  \/ get_markets_from_addresses
  \/ get_markets_from_ids
  \/ get_create_margin_account_transaction
  \/ get_create_margin_account_instructions
  \/ get_close_margin_account_transaction
  \/ get_close_margin_account_instructions
  \/ get_deposit_margin_transaction
  \/ get_deposit_margin_instructions
  \/ get_withdraw_margin_transaction
  \/ get_withdraw_margin_instructions
  \/ get_modify_position_transaction
  \/ get_modify_position_instructions
  \/ get_close_position_transaction
  \/ get_close_position_instructions
  \/ get_liquidate_transaction
  \/ get_liquidate_instructions
  \/ get_modify_position_quote
  \/ Transport
  \/ Complete
  \/ Return

Spec == Init /\ [][Next]_vars

\* the step of pc that only Complete takes; it is enabled exactly when
\* Complete is, and its enabling condition needs no decoding of the body
CompleteRuns == pc = "responded" /\ pc' = "done"

\* The same client on an executor that keeps polling the future of the call:
\* once the transport has answered, the rest of the method runs (weak
\* fairness of Complete, stated on pc). The transport itself is under no
\* obligation to answer: the client sets no timeout.
SpecFair == Spec /\ WF_pc(CompleteRuns)

\* ------------------------------------------------------------------------
\* The identifier codec on its own: an identifier is encoded to its wire
\* value and the wire value decoded, or a wire value is decoded as received
\* ------------------------------------------------------------------------

Families == {"ExchangeIdentifier", "MarginAccountIdentifier", "MarketIdentifier"}

\* the width of the family's id type
IdWidth(f) ==
  CASE f = "ExchangeIdentifier" -> ExchangeIdWidth
    [] f = "MarginAccountIdentifier" -> MarginAccountIdWidth
    [] f = "MarketIdentifier" -> MarketIdWidth

AllOnesKey == [i \in 1..PUBKEY_BYTES |-> 255]

\* 2^32 as a u64
TwoToThe32 == <<0, 0, 0, 0, 1, 0, 0, 0>>

\* the identifiers of a family that are encoded
Identifiers(f) ==
  {Id(Zeros(IdWidth(f))), Id(Unsigned(7, IdWidth(f))), Id(Unsigned(65535, IdWidth(f))),
   Id(MaxUnsigned(IdWidth(f)))}
  \cup (IF f = "ExchangeIdentifier" THEN {Id(TwoToThe32)} ELSE {})
  \cup {Address(k) : k \in Pubkeys \cup {AllOnesKey}}

\* texts as they may arrive on the wire
ZeroText == <<"0">>

SevenText == <<"7">>

PaddedSevenText == <<"0", "0", "7">>

PlusSevenText == <<"+", "7">>

MinusOneText == <<"-", "1">>

SpaceSevenText == <<" ", "7">>

SevenLetterText == <<"7", "a">>

PlusText == <<"+">>

MaxU32Text == <<"4", "2", "9", "4", "9", "6", "7", "2", "9", "5">>

AboveU32Text == <<"4", "2", "9", "4", "9", "6", "7", "2", "9", "6">>

MaxU64Text ==
  <<"1", "8", "4", "4", "6", "7", "4", "4", "0", "7", "3", "7", "0", "9",
    "5", "5", "1", "6", "1", "5">>

AboveU64Text ==
  <<"1", "8", "4", "4", "6", "7", "4", "4", "0", "7", "3", "7", "0", "9",
    "5", "5", "1", "6", "1", "6">>

TenOnesText == <<"1", "1", "1", "1", "1", "1", "1", "1", "1", "1">>

TwentyOnesText ==
  <<"1", "1", "1", "1", "1", "1", "1", "1", "1", "1", "1", "1", "1", "1",
    "1", "1", "1", "1", "1", "1">>

ThirtyThreeOnesText ==
  <<"1", "1", "1", "1", "1", "1", "1", "1", "1", "1", "1", "1", "1", "1",
    "1", "1", "1", "1", "1", "1", "1", "1", "1", "1", "1", "1", "1", "1",
    "1", "1", "1", "1", "1">>

LongPaddedSevenText ==
  <<"0", "0", "0", "0", "0", "0", "0", "0", "0", "0", "0", "0", "0", "0",
    "0", "0", "0", "0", "0", "0", "0", "0", "0", "0", "0", "0", "0", "0",
    "0", "0", "0", "0", "0", "0", "0", "0", "0", "0", "0", "0", "0", "0",
    "0", "7">>

NinesText ==
  <<"9", "9", "9", "9", "9", "9", "9", "9", "9", "9", "9", "9", "9", "9",
    "9", "9", "9", "9", "9", "9", "9", "9", "9", "9", "9", "9", "9", "9",
    "9", "9", "9", "9", "9", "9", "9", "9", "9", "9", "9", "9", "9", "9",
    "9", "9">>

AllOnesKeyText ==
  <<"J", "E", "K", "N", "V", "n", "k", "b", "o", "3", "j", "m", "a", "5",
    "n", "R", "E", "B", "B", "J", "C", "D", "o", "X", "F", "V", "e", "K",
    "k", "D", "5", "6", "V", "3", "x", "K", "r", "v", "R", "m", "W", "x",
    "F", "G">>

TooLongText ==
  <<"z", "z", "z", "z", "z", "z", "z", "z", "z", "z", "z", "z", "z", "z",
    "z", "z", "z", "z", "z", "z", "z", "z", "z", "z", "z", "z", "z", "z",
    "z", "z", "z", "z", "z", "z", "z", "z", "z", "z", "z", "z", "z", "z",
    "z", "z", "z">>

WireTexts ==
  {ZeroText, SevenText, PaddedSevenText, PlusSevenText,
   MinusOneText, SpaceSevenText, SevenLetterText, PlusText,
   MaxU32Text, AboveU32Text, MaxU64Text, AboveU64Text,
   TenOnesText, TwentyOnesText, ThirtyThreeOnesText, LongPaddedSevenText,
   NinesText, AllOnesKeyText, TooLongText, KeyAText,
   KeyBText, SystemProgramText, ShortText, BadAlphabetText,
   <<>>}

\* the wire values that are decoded as received: the texts, and values that
\* are no text
WireValues == {JStr(t) : t \in WireTexts} \cup {JNum(SevenText), JNull}

InitCodec ==
  /\ family \in Families
  /\ \/ identifier \in Identifiers(family) /\ wire = NoValue
     \/ identifier = NoValue /\ wire \in WireValues
  /\ parsed = NoValue
  /\ client = new([base_url |-> "https://api.example/v3", exchange_id |-> None,
                   priority_fee_percentile |-> None])
  /\ pc = "idle"
  /\ method = "none"
  /\ args = NoCall
  /\ request = NoValue
  /\ response = NoValue
  /\ decoded = NoValue
  /\ result = NoValue
  /\ ty = "none"
  /\ value = NoValue
  /\ encoded = NoValue
  /\ recovered = NoValue
  /\ calls = NoValue

\* Serialize for the identifier
Encode ==
  /\ identifier # NoValue
  /\ wire = NoValue
  /\ wire' = SerializeIdentifier(identifier)
  /\ UNCHANGED <<family, identifier, parsed, clientVars, scalarVars, calls>>

\* Deserialize for the identifier of the family
Decode ==
  /\ wire # NoValue
  /\ parsed = NoValue
  /\ parsed' = DeserializeIdentifier(wire, IdWidth(family))
  /\ UNCHANGED <<family, identifier, wire, clientVars, scalarVars, calls>>

NextCodec ==
  \/ Encode
  \/ Decode

SpecCodec == InitCodec /\ [][NextCodec]_vars

\* ------------------------------------------------------------------------
\* The scalar codecs on their own: a field's value is serialized to its wire
\* value (EncodeScalar), a wire value is deserialized (DecodeScalar).  The
\* field is either a wide integer under serde(with = "field_as_string") or
\* the acceptable_price of one of the three position payloads.
\* ------------------------------------------------------------------------

WideTypes == {"u64", "i128", "u128"}

PositionPayloads ==
  {"ClosePositionPayload", "ModifyPositionPayload", "ModifyPositionQuotePayload"}

\* the bytes of a wide type
ScalarWidth(t) == IF t = "u64" THEN U64Bytes ELSE IF t = "i128" THEN I128Bytes ELSE U128Bytes

\* the type by which the derived Deserialize of a position payload reads
\* acceptable_price: the field names a serializer only (serialize_with), so
\* it is read as a plain Option<u64>
AcceptablePriceField(payload) == TOption(TUnsigned(U64Bytes))

MaxI128 == [i \in 1..I128Bytes |-> IF i = I128Bytes THEN 127 ELSE 255]

ScalarValues(t) ==
  CASE t = "u64" -> {Zeros(U64Bytes), Unsigned(7, U64Bytes), Unsigned(65535, U64Bytes),
                     MaxUnsigned(U64Bytes)}
    [] t = "i128" -> {Zeros(I128Bytes), Unsigned(7, I128Bytes), MinusOne,
                      Negate(Unsigned(65535, I128Bytes)), MaxI128, MinI128}
    [] t = "u128" -> {Zeros(U128Bytes), Unsigned(7, U128Bytes), MaxUnsigned(U64Bytes) \o
                      Zeros(U64Bytes), MaxUnsigned(U128Bytes)}
    [] t \in PositionPayloads -> {None, Some(Zeros(U64Bytes)), Some(Unsigned(7, U64Bytes)),
                                  Some(MaxUnsigned(U64Bytes))}

MaxU128Text ==
  <<"3", "4", "0", "2", "8", "2", "3", "6", "6", "9", "2", "0", "9", "3",
    "8", "4", "6", "3", "4", "6", "3", "3", "7", "4", "6", "0", "7", "4",
    "3", "1", "7", "6", "8", "2", "1", "1", "4", "5", "5">>

AboveU128Text ==
  <<"3", "4", "0", "2", "8", "2", "3", "6", "6", "9", "2", "0", "9", "3",
    "8", "4", "6", "3", "4", "6", "3", "3", "7", "4", "6", "0", "7", "4",
    "3", "1", "7", "6", "8", "2", "1", "1", "4", "5", "6">>

MaxI128Text ==
  <<"1", "7", "0", "1", "4", "1", "1", "8", "3", "4", "6", "0", "4", "6",
    "9", "2", "3", "1", "7", "3", "1", "6", "8", "7", "3", "0", "3", "7",
    "1", "5", "8", "8", "4", "1", "0", "5", "7", "2", "7">>

AboveI128Text ==
  <<"1", "7", "0", "1", "4", "1", "1", "8", "3", "4", "6", "0", "4", "6",
    "9", "2", "3", "1", "7", "3", "1", "6", "8", "7", "3", "0", "3", "7",
    "1", "5", "8", "8", "4", "1", "0", "5", "7", "2", "8">>

MinI128Text ==
  <<"-", "1", "7", "0", "1", "4", "1", "1", "8", "3", "4", "6", "0", "4",
    "6", "9", "2", "3", "1", "7", "3", "1", "6", "8", "7", "3", "0", "3",
    "7", "1", "5", "8", "8", "4", "1", "0", "5", "7", "2", "8">>

BelowMinI128Text ==
  <<"-", "1", "7", "0", "1", "4", "1", "1", "8", "3", "4", "6", "0", "4",
    "6", "9", "2", "3", "1", "7", "3", "1", "6", "8", "7", "3", "0", "3",
    "7", "1", "5", "8", "8", "4", "1", "0", "5", "7", "2", "9">>

MinusZeroText == <<"-", "0">>

MinusText == <<"-">>

ScalarTexts ==
  {<<>>, ZeroText, SevenText, PaddedSevenText, PlusSevenText, MinusOneText,
   MinusZeroText, MinusText, PlusText, SpaceSevenText, SevenLetterText,
   MaxU64Text, AboveU64Text, MaxU128Text, AboveU128Text, MaxI128Text,
   AboveI128Text, MinI128Text, BelowMinI128Text}

ScalarWires == {JStr(t) : t \in ScalarTexts} \cup {JNum(SevenText), JNull}

InitScalar ==
  /\ ty \in WideTypes \cup PositionPayloads
  /\ \/ value \in ScalarValues(ty) /\ encoded = NoValue
     \/ value = NoValue /\ encoded \in ScalarWires
  /\ recovered = NoValue
  /\ client = new([base_url |-> "https://api.example/v3", exchange_id |-> None,
                   priority_fee_percentile |-> None])
  /\ pc = "idle"
  /\ method = "none"
  /\ args = NoCall
  /\ request = NoValue
  /\ response = NoValue
  /\ decoded = NoValue
  /\ result = NoValue
  /\ family = "none"
  /\ identifier = NoValue
  /\ wire = NoValue
  /\ parsed = NoValue
  /\ calls = NoValue

\* the field's serializer
EncodeScalar ==
  /\ value # NoValue
  /\ encoded = NoValue
  /\ encoded' = CASE ty \in {"u64", "u128"} -> field_as_string_serialize_unsigned(value)
                  [] ty = "i128" -> field_as_string_serialize_signed(value)
                  [] ty \in PositionPayloads -> optional_field_as_string_serialize(value)
  /\ UNCHANGED <<ty, value, recovered, clientVars, codecVars, calls>>

\* the field's deserializer
DecodeScalar ==
  /\ encoded # NoValue
  /\ recovered = NoValue
  /\ recovered' =
       CASE ty \in {"u64", "u128"} ->
              field_as_string_deserialize_unsigned(encoded, ScalarWidth(ty))
         [] ty = "i128" -> field_as_string_deserialize_signed(encoded, ScalarWidth(ty))
         [] ty \in PositionPayloads -> Deserialize(AcceptablePriceField(ty), encoded)
  /\ UNCHANGED <<ty, value, encoded, clientVars, codecVars, calls>>

NextScalar ==
  \/ EncodeScalar
  \/ DecodeScalar

SpecScalar == InitScalar /\ [][NextScalar]_vars

\* ------------------------------------------------------------------------
\* Several callers on one client: every caller has its own call in progress,
\* made of the same steps as above, and the steps of the callers interleave.
\* The callers share the client and nothing else: the request, the response
\* and the result of a call are locals of its future.
\* ------------------------------------------------------------------------

Callers == {1, 2}

\* the methods the callers call, with their arguments
Invocations ==
  {[method |-> "get_exponents", args |-> NoArgs],
   [method |-> "get_market_ids", args |-> NoArgs]}
  \cup {[method |-> "get_market_from_id", args |-> [market_id |-> market_id]] :
          market_id \in MarketIds}

\* the request the method builds from the client and its arguments
RequestOf(self, m, a) ==
  CASE m = "get_exponents" -> get_exponents_request(self)
    [] m = "get_market_ids" -> get_market_ids_request(self)
    [] m = "get_market_from_id" -> get_market_from_id_request(self, a.market_id)

\* what the method returns for the answer of the transport
Outcome(m, answer) ==
  Returned(m, IF answer.sent
              THEN validate_and_deserialize_response(ResponseShape(m), answer)
              ELSE Err(ReqwestError("send")))

\* the answers the transport gives the callers
ConcurrentStatuses == {200, 404}

ConcurrentBodies(m) ==
  CASE m = "get_exponents" -> {JsonBody(ExponentsDoc), DeniedBody}
    [] m = "get_market_ids" -> {JsonBody(MarketIdsDoc), JsonBody(MarketIdsMapDocEmpty)}
    [] m = "get_market_from_id" -> {JsonBody(MarketInfoDocStatusTooWide), UnreadableBody}

IdleCall == [pc |-> "idle"]

InitConcurrent ==
  /\ client \in {default, new([base_url |-> "https://api.example/v3",
                               exchange_id |-> Some(Id(Unsigned(7, U64Bytes))),
                               priority_fee_percentile |-> None])}
  /\ calls = [c \in Callers |-> IdleCall]
  /\ pc = "idle"
  /\ method = "none"
  /\ args = NoCall
  /\ request = NoValue
  /\ response = NoValue
  /\ decoded = NoValue
  /\ result = NoValue
  /\ family = "none"
  /\ identifier = NoValue
  /\ wire = NoValue
  /\ parsed = NoValue
  /\ ty = "none"
  /\ value = NoValue
  /\ encoded = NoValue
  /\ recovered = NoValue

\* a caller calls a method: its request is built and handed to the transport
CallBy(c) ==
  /\ calls[c].pc = "idle"
  /\ \E i \in Invocations :
       calls' = [calls EXCEPT ![c] =
                  [pc |-> "awaiting", method |-> i.method, args |-> i.args,
                   request |-> RequestOf(client, i.method, i.args)]]
  /\ UNCHANGED <<clientVars, codecVars, scalarVars>>

\* the transport answers the request of a caller
TransportFor(c) ==
  /\ calls[c].pc = "awaiting"
  /\ \E answer \in {[sent |-> FALSE]} \cup
                    {[sent |-> TRUE, status |-> status, body |-> body] :
                       status \in ConcurrentStatuses,
                       body \in ConcurrentBodies(calls[c].method)} :
       calls' = [calls EXCEPT ![c] =
                  [pc |-> "responded", method |-> calls[c].method, response |-> answer]]
  /\ UNCHANGED <<clientVars, codecVars, scalarVars>>

\* the response of whichever caller was answered, as a buffer shared by the
\* callers would hold it
SharedResponse(c) ==
  LET answered == {d \in Callers : calls[d].pc = "responded"}
  IN  calls[CHOOSE d \in answered : \A e \in answered : d <= e].response

\* the response a call works on: the local `response` of its own future
OwnResponse(c) == calls[c].response

\* the rest of the method of a caller
CompleteBy(c) ==
  /\ calls[c].pc = "responded"
  /\ calls' = [calls EXCEPT ![c] =
                [pc |-> "done", method |-> calls[c].method,
                 response |-> calls[c].response,
                 result |-> Outcome(calls[c].method, OwnResponse(c))]]
  /\ UNCHANGED <<clientVars, codecVars, scalarVars>>

\* the caller has its result
ReturnTo(c) ==
  /\ calls[c].pc = "done"
  /\ calls' = [calls EXCEPT ![c] = IdleCall]
  /\ UNCHANGED <<clientVars, codecVars, scalarVars>>

NextConcurrent ==
  \E c \in Callers :
    \/ CallBy(c)
    \/ TransportFor(c)
    \/ CompleteBy(c)
    \/ ReturnTo(c)

SpecConcurrent == InitConcurrent /\ [][NextConcurrent]_vars

\* ------------------------------------------------------------------------
\* Properties of the client
\* ------------------------------------------------------------------------

\* the member of a JSON object with a name
JsonMember(obj, name) ==
  obj.m[CHOOSE i \in 1..Len(obj.m) : obj.m[i][1] = <<name>>][2]

\* the values a query string gives a key
QueryValues(query, name) ==
  {query[i][2] : i \in {k \in 1..Len(query) : query[k][1] = name}}

\* the kind each of the three market-ids methods asks for, and its wire text
RequestedKind(m) ==
  CASE m = "get_market_ids" -> "Ids"
    [] m = "get_market_ids_map" -> "Map"
    [] m = "get_market_addresses" -> "Addresses"

RequestedKindText(m) ==
  CASE m = "get_market_ids" -> <<"ids">>
    [] m = "get_market_ids_map" -> <<"map">>
    [] m = "get_market_addresses" -> <<"addresses">>

\* the answer came with a status outside 2xx
NonSuccess == response.sent /\ (response.status < 200 \/ response.status > 299)

\* the answer came with a 2xx status and a JSON array as its body
SuccessArray ==
  /\ response.sent
  /\ response.status >= 200 /\ response.status <= 299
  /\ response.body.kind = "json"
  /\ response.body.doc.t = "arr"

\* C1: get_market_ids, get_market_ids_map and get_market_addresses send
\* response_kind ids, map and addresses; when the decoded variant is not the
\* kind asked for the call returns MarketIdsResponse(kind asked for) and no
\* value, and when it is, the call returns the variant's inner value.
C1_MarketIdsKindIsEnforced ==
  method \in MarketIdsMethods =>
    /\ pc = "awaiting" =>
         /\ request.http = "GET"
         /\ QueryValues(request.query, "response_kind") = {RequestedKindText(method)}
    /\ (pc = "done" /\ decoded.ok) =>
         IF decoded.v.variant = RequestedKind(method)
         THEN result = Ok(decoded.v.v)
         ELSE /\ ~result.ok
              /\ result.e = MarketIdsResponseError(RequestedKind(method))

\* get_market_ids answered with a map: the mismatch is an error
C1_Witness ==
  /\ pc = "done"
  /\ method = "get_market_ids"
  /\ response.sent
  /\ response.status = 200
  /\ response.body = JsonBody(MarketIdsMapDoc)
  /\ decoded.ok
  /\ decoded.v.variant = "Map"
  /\ result = Err(MarketIdsResponseError("Ids"))

\* C2: whatever the method, an answer whose status is outside 2xx makes the
\* call return the Request error with that status and the body as received,
\* and nothing is decoded from the body: no value is returned.
C2_NonSuccessIsRequestError ==
  (pc = "done" /\ NonSuccess) =>
    /\ ~result.ok
    /\ ~decoded.ok
    /\ result.e.kind = "Request"
    /\ result.e.status = response.status
    /\ response.body.kind # "unreadable" => result.e.body = response.body
    /\ result = Err(RequestError(response.status, result.e.body))

\* 404 with a body that would decode as the exchange
C2_Witness ==
  /\ pc = "done"
  /\ method = "get_exchange"
  /\ response.sent
  /\ response.status = 404
  /\ response.body = JsonBody(ExchangeInfoDoc)
  /\ Deserialize(ExchangeInfo, ExchangeInfoDoc).ok
  /\ result = Err(RequestError(404, JsonBody(ExchangeInfoDoc)))

\* C3: a list of addresses in a 2xx body comes back entry for entry or not at
\* all: get_unhealthy_margin_accounts and get_market_addresses return one
\* address per entry of the server's list, and a list holding a text that is
\* no address is a decode error.
C3_NoAddressIsDropped ==
  (/\ pc = "done"
   /\ method \in {"get_unhealthy_margin_accounts", "get_market_addresses"}
   /\ SuccessArray) =>
    /\ result.ok => Len(result.v) = Len(response.body.doc.a)
    /\ (/\ \A i \in 1..Len(response.body.doc.a) : response.body.doc.a[i].t = "str"
        /\ \E i \in 1..Len(response.body.doc.a) :
             ~PubkeyFromStr(response.body.doc.a[i].s).ok) =>
         (~result.ok /\ result.e = ReqwestError("decode"))

\* get_unhealthy_margin_accounts answered with three entries, the second no
\* address: two addresses are returned
C3_DroppedEntry ==
  /\ pc = "done"
  /\ method = "get_unhealthy_margin_accounts"
  /\ response.sent
  /\ response.status = 200
  /\ response.body = JsonBody(UnhealthyDocBadEntry)
  /\ result = Ok(<<KeyA, SystemProgram>>)

\* the methods whose payload holds the two slippage fields
SlippageMethods ==
  {"get_modify_position_transaction", "get_modify_position_instructions",
   "get_close_position_transaction", "get_close_position_instructions",
   "get_modify_position_quote"}

\* C4: as_request_fields gives (Some(p), None) for AcceptablePrice(p) and
\* (None, Some(b)) for SlippageToleranceBps(b), and every request of the five
\* methods with a slippage setting has exactly one of acceptable_price and
\* slippage_tolerance_bps non-null on the wire.
C4_ExactlyOneSlippageField ==
  /\ \A s \in SlippageSettings :
       /\ s.tag = "AcceptablePrice" => as_request_fields(s) = <<Some(s.price), None>>
       /\ s.tag = "SlippageToleranceBps" => as_request_fields(s) = <<None, Some(s.bps)>>
       /\ as_request_fields(s)[1].some # as_request_fields(s)[2].some
  /\ (pc = "awaiting" /\ method \in SlippageMethods) =>
       /\ (JsonMember(request.json, "acceptable_price") = JNull)
            # (JsonMember(request.json, "slippage_tolerance_bps") = JNull)
       /\ (JsonMember(request.json, "acceptable_price") # JNull)
            <=> args[2].slippage_setting.tag = "AcceptablePrice"
       /\ request.payload.acceptable_price.some # request.payload.slippage_tolerance_bps.some

\* a close-position request with a tolerance of 50 bps
C4_Witness ==
  /\ pc = "awaiting"
  /\ method = "get_close_position_instructions"
  /\ args[2].slippage_setting = SlippageToleranceBps(<<50, 0>>)
  /\ JsonMember(request.json, "acceptable_price") = JNull
  /\ JsonMember(request.json, "slippage_tolerance_bps") = JNum(<<"5", "0">>)

\* ------------------------------------------------------------------------
\* Properties of the identifier codec
\* ------------------------------------------------------------------------

\* wire values that spell neither an id nor an address
UnparseableWire ==
  {JStr(<<>>), JStr(MinusOneText), JStr(SpaceSevenText), JStr(SevenLetterText),
   JStr(PlusText), JStr(ShortText), JStr(BadAlphabetText), JStr(ThirtyThreeOnesText),
   JStr(TooLongText), JNum(SevenText), JNull}

\* C5: in each identifier family, an encoded Id(i) decodes to Id(i) and an
\* encoded Address(a) decodes to Address(a), so the text of an address is
\* never read as an id nor the text of an id as an address; a wire value that
\* spells neither fails to decode.
C5_IdentifierRoundTrip ==
  parsed # NoValue =>
    /\ identifier # NoValue =>
         /\ wire.t = "str"
         /\ parsed.ok
         /\ parsed.v.tag = identifier.tag
         /\ parsed.v = identifier
    /\ wire \in UnparseableWire => ~parsed.ok

\* the all-zero address, whose text is all digits, through the market family
C5_Witness ==
  /\ family = "MarketIdentifier"
  /\ identifier = Address(SystemProgram)
  /\ wire = JStr(SystemProgramText)
  /\ parsed = Ok(Address(SystemProgram))

\* a text without its leading "+"
StripPlus(t) == IF t # <<>> /\ t[1] = "+" THEN Tail(t) ELSE t

\* a text the integer parser reads whole: decimal digits after an optional "+"
IsNumeral(t) ==
  /\ StripPlus(t) # <<>>
  /\ \A i \in 1..Len(StripPlus(t)) : StripPlus(t)[i] \in {DecDigits[k] : k \in 1..10}

\* digits without their leading zeros
StripZeros(d) ==
  LET nz == {i \in 1..Len(d) : d[i] # "0"}
  IN  IF nz = {} THEN <<"0">>
      ELSE SubSeq(d, CHOOSE i \in nz : \A k \in nz : i <= k, Len(d))

\* a <= b for numerals without leading zeros
NumeralAtMost(a, b) ==
  \/ Len(a) < Len(b)
  \/ /\ Len(a) = Len(b)
     /\ \/ a = b
        \/ \E i \in 1..Len(a) :
             /\ \A k \in 1..(i - 1) : a[k] = b[k]
             /\ DigitValue(DecDigits, a[i]) < DigitValue(DecDigits, b[i])

\* the numeral of the largest id of a width
MaxText(w) == IF w = U32Bytes THEN MaxU32Text ELSE MaxU64Text

\* the text is a numeral of a number that the width holds
FitsWidth(t, w) == IsNumeral(t) /\ NumeralAtMost(StripZeros(StripPlus(t)), MaxText(w))

\* C6: a wire text decodes to the Id variant exactly when the whole text is a
\* numeral that fits the family's width (u64 for the exchange, u32 for margin
\* accounts and markets), and then to that number; otherwise to the Address
\* variant exactly when it is a valid address; otherwise decoding fails.  A
\* digit string beyond the width is never an Id, wrapped or cut.
C6_DecodeOrder ==
  (parsed # NoValue /\ wire.t = "str") =>
    IF FitsWidth(wire.s, IdWidth(family))
    THEN /\ parsed.ok
         /\ parsed.v.tag = "Id"
         /\ Len(parsed.v.id) = IdWidth(family)
         /\ UnsignedToString(parsed.v.id) = StripZeros(StripPlus(wire.s))
    ELSE IF PubkeyFromStr(wire.s).ok
         THEN /\ parsed = Ok(Address(PubkeyFromStr(wire.s).v))
              /\ PubkeyToString(parsed.v.address) = wire.s
         ELSE ~parsed.ok

\* twenty digits, beyond u32 and within u64, are no market id
C6_Witness ==
  /\ family = "MarketIdentifier"
  /\ wire = JStr(TwentyOnesText)
  /\ FitsWidth(TwentyOnesText, U64Bytes)
  /\ ~FitsWidth(TwentyOnesText, U32Bytes)
  /\ parsed # NoValue
  /\ ~parsed.ok

\* ------------------------------------------------------------------------
\* Properties of the client, continued
\* ------------------------------------------------------------------------

\* C7: get_margin_accounts returns the server's list entry for entry and in
\* its order: entry k of the result is None exactly when entry k of the list
\* is null and Some of the decoded info otherwise; a null entry does not make
\* the call fail.
C7_MarginAccountsElementwise ==
  (/\ pc = "done"
   /\ method = "get_margin_accounts"
   /\ SuccessArray
   /\ \A k \in 1..Len(response.body.doc.a) :
        \/ response.body.doc.a[k] = JNull
        \/ Deserialize(MarginAccountInfo, response.body.doc.a[k]).ok) =>
    /\ result.ok
    /\ Len(result.v) = Len(response.body.doc.a)
    /\ \A k \in 1..Len(response.body.doc.a) :
         IF response.body.doc.a[k] = JNull THEN result.v[k] = None
         ELSE result.v[k] = Some(Deserialize(MarginAccountInfo, response.body.doc.a[k]).v)

\* an account, null, another account
C7_Witness ==
  /\ pc = "done"
  /\ method = "get_margin_accounts"
  /\ response.sent
  /\ response.status = 200
  /\ response.body = JsonBody(MarginAccountsDoc)
  /\ result.ok
  /\ Len(result.v) = 3
  /\ result.v[1].some /\ result.v[1].v.address = KeyA
  /\ result.v[2] = None
  /\ result.v[3].some /\ result.v[3].v.address = KeyB

\* the methods that return the public form of an instruction response
InstructionBearingMethods ==
  InstructionsMethods \cup {"get_create_margin_account_instructions"}

\* the accounts of a public instruction are those of the internal one
SameAccounts(internal, public) ==
  /\ Len(public) = Len(internal)
  /\ \A i \in 1..Len(internal) :
       /\ public[i].pubkey = internal[i].pubkey
       /\ public[i].is_signer = internal[i].is_signer
       /\ public[i].is_writable = internal[i].is_writable

\* a public list of instructions is the internal one, entry for entry
SameInstructions(internal, public) ==
  /\ Len(public) = Len(internal)
  /\ \A i \in 1..Len(internal) :
       /\ public[i].program_id = internal[i].program_id
       /\ public[i].data = internal[i].data
       /\ SameAccounts(internal[i].accounts, public[i].accounts)

\* C8: the conversion of a decoded internal instruction response to the
\* public one never fails and keeps everything: both instruction lists in
\* their places, lengths and order, every program id and data, every
\* account's pubkey, is_signer and is_writable, and the cost fields.
C8_ConversionPreserves ==
  (pc = "done" /\ method \in InstructionBearingMethods /\ decoded.ok) =>
    /\ result.ok
    /\ SameInstructions(decoded.v.instructions.v3_instructions,
                        result.v.instructions.v3_instructions)
    /\ SameInstructions(decoded.v.instructions.compute_budget_instructions,
                        result.v.instructions.compute_budget_instructions)
    /\ DOMAIN result.v = DOMAIN decoded.v
    /\ result.v.total_required_lamports = decoded.v.total_required_lamports
    /\ result.v.required_compute_lamports = decoded.v.required_compute_lamports
    /\ result.v.required_rent_lamports = decoded.v.required_rent_lamports
    /\ method \in InstructionsMethods => result.v.cu_limit = decoded.v.cu_limit
    /\ method = "get_create_margin_account_instructions" =>
         /\ result.v.margin_account_address = decoded.v.margin_account_address
         /\ result.v.margin_account_id = decoded.v.margin_account_id

\* two v3 instructions and one compute-budget instruction, the first account
\* a signer that is not writable
C8_Witness ==
  /\ pc = "done"
  /\ method = "get_liquidate_instructions"
  /\ response.sent
  /\ response.status = 200
  /\ response.body = JsonBody(InstructionInfoDoc)
  /\ result.ok
  /\ Len(result.v.instructions.v3_instructions) = 2
  /\ Len(result.v.instructions.compute_budget_instructions) = 1
  /\ result.v.instructions.v3_instructions[1].program_id = KeyA
  /\ result.v.instructions.v3_instructions[1].data = <<1, 2, 3, 4>>
  /\ result.v.instructions.v3_instructions[1].accounts[1] =
       [pubkey |-> KeyB, is_signer |-> TRUE, is_writable |-> FALSE]
  /\ result.v.instructions.compute_budget_instructions[1].program_id = KeyB

\* the methods that build a transaction or its instructions
MutatingMethods ==
  TransactionMethods \cup InstructionsMethods
  \cup {"get_create_margin_account_transaction", "get_create_margin_account_instructions"}

\* C9: every request carries the exchange identifier the client was built
\* with, in the query string of a GET and in the payload of a POST, and the
\* request of every mutating method carries the configured
\* priority_fee_percentile, null when there is none.
C9_ConfiguredExchangeAndFee ==
  pc = "awaiting" =>
    /\ request.http = "GET" =>
         /\ Cardinality(QueryValues(request.query, "exchange_id")) = 1
         /\ \A text \in QueryValues(request.query, "exchange_id") :
              DeserializeIdentifier(JStr(text), ExchangeIdWidth) = Ok(client.exchange_id)
    /\ request.http = "POST" =>
         /\ request.payload.exchange_id = Some(client.exchange_id)
         /\ DeserializeIdentifier(JsonMember(request.json, "exchange_id"), ExchangeIdWidth)
              = Ok(client.exchange_id)
    /\ method \in MutatingMethods =>
         /\ request.http = "POST"
         /\ request.payload.priority_fee_percentile = client.priority_fee_percentile
         /\ Deserialize(TOption(TUnsigned(U16Bytes)),
                        JsonMember(request.json, "priority_fee_percentile"))
              = Ok(client.priority_fee_percentile)

\* a liquidation by a client of the exchange at KeyB with percentile 50
C9_Witness ==
  /\ pc = "awaiting"
  /\ method = "get_liquidate_instructions"
  /\ client.exchange_id = Address(KeyB)
  /\ client.priority_fee_percentile = Some(<<50, 0>>)
  /\ JsonMember(request.json, "exchange_id") = JStr(KeyBText)
  /\ JsonMember(request.json, "priority_fee_percentile") = JNum(<<"5", "0">>)

\* the request the sibling of a mutating method builds from the same
\* arguments
SiblingRequest(m, self, a) ==
  CASE m = "get_create_margin_account_transaction" ->
         get_create_margin_account_instructions_request(self, a.owner, a.margin_account_id)
    [] m = "get_create_margin_account_instructions" ->
         get_create_margin_account_transaction_request(self, a.owner, a.margin_account_id)
    [] m = "get_close_margin_account_transaction" ->
         get_close_margin_account_instructions_request(self, a.owner, a.margin_account_id)
    [] m = "get_close_margin_account_instructions" ->
         get_close_margin_account_transaction_request(self, a.owner, a.margin_account_id)
    [] m = "get_deposit_margin_transaction" ->
         get_deposit_margin_instructions_request(self, a.owner, a.margin_account_id, a.margin)
    [] m = "get_deposit_margin_instructions" ->
         get_deposit_margin_transaction_request(self, a.owner, a.margin_account_id, a.margin)
    [] m = "get_withdraw_margin_transaction" ->
         get_withdraw_margin_instructions_request(
           self, a.owner, a.margin_account_id, a.margin, a.settlement_request_id, a.keeper_tip)
    [] m = "get_withdraw_margin_instructions" ->
         get_withdraw_margin_transaction_request(
           self, a.owner, a.margin_account_id, a.margin, a.settlement_request_id, a.keeper_tip)
    [] m = "get_modify_position_transaction" ->
         get_modify_position_instructions_request(
           self, a.owner, a.margin_account_id, a.market_id, a.size_delta, a.slippage_setting)
    [] m = "get_modify_position_instructions" ->
         get_modify_position_transaction_request(
           self, a.owner, a.margin_account_id, a.market_id, a.size_delta, a.slippage_setting)
    [] m = "get_close_position_transaction" ->
         get_close_position_instructions_request(
           self, a.owner, a.margin_account_id, a.market_id, a.slippage_setting)
    [] m = "get_close_position_instructions" ->
         get_close_position_transaction_request(
           self, a.owner, a.margin_account_id, a.market_id, a.slippage_setting)
    [] m = "get_liquidate_transaction" ->
         get_liquidate_instructions_request(
           self, a.margin_account_to_liquidate, a.liquidator, a.liquidator_margin_account_id)
    [] m = "get_liquidate_instructions" ->
         get_liquidate_transaction_request(
           self, a.margin_account_to_liquidate, a.liquidator, a.liquidator_margin_account_id)

\* C10: the transaction method and the instructions method of a mutating
\* operation send the same JSON payload for the same arguments and
\* configuration; their requests differ in the path and in nothing else.
C10_SiblingsSendSamePayload ==
  (pc = "awaiting" /\ method \in MutatingMethods) =>
    LET sibling == SiblingRequest(method, client, args[2])
    IN  /\ request.json = sibling.json
        /\ request.payload = sibling.payload
        /\ request.http = sibling.http
        /\ request.query = sibling.query
        /\ request.url[1] = sibling.url[1]
        /\ request.url[2] # sibling.url[2]

\* a withdrawal with a settlement request id and a keeper tip
C10_Witness ==
  /\ pc = "awaiting"
  /\ method = "get_withdraw_margin_transaction"
  /\ args[2].settlement_request_id = Some(<<3, 0, 0, 0, 0, 0, 0, 0>>)
  /\ args[2].keeper_tip = Some(MaxUnsigned(U64Bytes))
  /\ request.url[2] = "/withdraw-margin-transaction"
  /\ JsonMember(request.json, "keeper_tip") = JNum(MaxU64Text)
  /\ request.json =
       get_withdraw_margin_instructions_request(
         client, args[2].owner, args[2].margin_account_id, args[2].margin,
         args[2].settlement_request_id, args[2].keeper_tip).json

\* the call in progress has failed: the transport failed, or the status is
\* not a success, or the body did not decode
RoundTripFailed(answer, outcome) ==
  \/ ~answer.sent
  \/ ~is_success(answer.status)
  \/ ~outcome.ok

\* one step of a call, which goes idle -> awaiting -> responded -> done and
\* hands a request to the transport in its first step only
OneRoundTripStep ==
  /\ (pc = "idle" /\ pc' # "idle") => (pc' = "awaiting" /\ request' # NoValue)
  /\ pc = "awaiting" => (pc' = "responded" /\ request' = NoValue)
  /\ pc = "responded" =>
       /\ pc' = "done"
       /\ request' = NoValue
       /\ response' = response
       /\ result' # NoValue
       /\ RoundTripFailed(response, decoded') =>
            (~result'.ok /\ result' = decoded')
  /\ pc = "done" => (pc' = "idle" /\ request' = NoValue)

\* C11: every method call performs exactly one transport round trip and then
\* terminates with a result or an error: the request is handed to the
\* transport once, at the start of the call; after a transport failure, a
\* non-success status or a decode failure no second request is issued and
\* the failure is what the call returns; and once the transport has
\* answered the call does return.
C11_OneRoundTripThenReturn ==
  /\ [][OneRoundTripStep]_vars
  /\ (pc = "responded") ~> (pc = "done")

C11_Witness ==
  /\ pc = "done"
  /\ request = NoValue
  /\ response.sent
  /\ response.status = 200
  /\ ~decoded.ok
  /\ result = Err(ReqwestError("decode"))

\* the members of a JSON object that carry a name
MembersNamed(obj, names) ==
  {obj.m[i][2] : i \in {k \in 1..Len(obj.m) : \E n \in names : obj.m[k][1] = <<n>>}}

\* the u64 and i128 fields of the request payloads (request.rs), and the
\* lamport fields of TransactionInfo (response.rs)
WideRequestFields ==
  {"margin", "keeper_tip", "settlement_request_id", "size_delta", "acceptable_price"}

LamportFields ==
  {"total_required_lamports", "required_compute_lamports", "required_rent_lamports"}

\* C12: every integer field wider than 32 bits is string-encoded on the wire:
\* in a request body the margin, keeper_tip, settlement_request_id,
\* size_delta and acceptable_price members are JSON strings (or null when
\* absent), never JSON numbers, and a transaction response is decoded only
\* when its lamport members are JSON strings.
C12_WideIntegersAreText ==
  /\ (pc = "awaiting" /\ request.http = "POST") =>
       \A v \in MembersNamed(request.json, WideRequestFields) : v.t \in {"str", "null"}
  /\ (pc = "done" /\ method \in TransactionMethods /\ decoded.ok) =>
       \A v \in MembersNamed(response.body.doc, LamportFields) : v.t = "str"

\* a withdrawal whose margin, settlement request id and keeper tip go out as
\* JSON numbers
C12_NumbersOnTheWire ==
  /\ pc = "awaiting"
  /\ method = "get_withdraw_margin_transaction"
  /\ JsonMember(request.json, "margin") = JNum(MaxU64Text)
  /\ JsonMember(request.json, "settlement_request_id").t = "num"
  /\ JsonMember(request.json, "keeper_tip").t = "num"

\* C13: for the acceptable_price field of ClosePositionPayload,
\* ModifyPositionPayload and ModifyPositionQuotePayload, Some(v) encodes as
\* the decimal text of v, None encodes as null, and decoding the encoded
\* form gives the original option back.
C13_OptionalScalarRoundTrip ==
  (ty \in PositionPayloads /\ value # NoValue /\ encoded # NoValue) =>
    /\ encoded = IF value.some THEN JStr(UnsignedToString(value.v)) ELSE JNull
    /\ recovered # NoValue => recovered = Ok(value)

\* an acceptable price that was encoded as text and is not read back
C13_EncodedPriceIsNotReadBack ==
  /\ ty = "ClosePositionPayload"
  /\ value = Some(MaxUnsigned(U64Bytes))
  /\ encoded = JStr(MaxU64Text)
  /\ recovered # NoValue
  /\ ~recovered.ok

\* the four kinds of failure of a call
TransportFailure == ReqwestError("send")

DecodeFailure == ReqwestError("decode")

IsRequestFailure(e) == e.kind = "Request"

IsShapeMismatch(e) == e.kind = "MarketIdsResponse"

ConstructedClients ==
  {[base_url |-> config.base_url,
    exchange_id |-> IF config.exchange_id = None
                    THEN [tag |-> "Id", id |-> <<0, 0, 0, 0, 0, 0, 0, 0>>]
                    ELSE config.exchange_id.v,
    priority_fee_percentile |-> config.priority_fee_percentile] : config \in Configs}
  \cup {[base_url |-> DEFAULT_V3_API_URL,
          exchange_id |-> [tag |-> "Id", id |-> <<0, 0, 0, 0, 0, 0, 0, 0>>],
          priority_fee_percentile |-> None]}

\* C15: the client's configuration is fixed at construction: base_url,
\* exchange_id and priority_fee_percentile are those given to new (or those
\* of default), with the numeric id 0 when the configuration names no
\* exchange, and no step of any call, successful or failing, changes them.
C15_ConfigurationIsFixed ==
  /\ [](client \in ConstructedClients)
  /\ [][client' = client]_vars

C15_Witness ==
  /\ pc = "done"
  /\ ~result.ok
  /\ client.base_url = "https://api.example/v3"
  /\ client.exchange_id = [tag |-> "Id", id |-> <<0, 0, 0, 0, 0, 0, 0, 0>>]
  /\ client.priority_fee_percentile = Some(Unsigned(50, U16Bytes))

\* a step of one caller leaves the call of every other caller, and the
\* client, as they were
StepOfOneCaller ==
  /\ client' = client
  /\ \A c \in Callers :
       calls'[c] # calls[c] => \A d \in Callers \ {c} : calls'[d] = calls[d]

\* C16: for any interleaving of the calls of several callers on one client,
\* each call issues the request and returns the outcome it would alone: its
\* request is the one its method builds from the client and its own
\* arguments, its result is the one its method returns for the response to
\* its own request, and a step of one call changes nothing of another.
C16_CallsAreIsolated ==
  /\ [](\A c \in Callers :
         /\ calls[c].pc = "awaiting" =>
              calls[c].request = RequestOf(client, calls[c].method, calls[c].args)
         /\ calls[c].pc = "done" =>
              calls[c].result = Outcome(calls[c].method, calls[c].response))
  /\ [][StepOfOneCaller]_vars

\* one caller has its decoded result while the other, which called another
\* method, holds a response that reports a failure
C16_Witness ==
  /\ calls[1].pc = "done"
  /\ calls[1].method = "get_market_ids"
  /\ calls[1].result.ok
  /\ calls[2].pc = "responded"
  /\ calls[2].method = "get_exponents"
  /\ calls[2].response.sent
  /\ calls[2].response.status = 404

\* the numeral of the largest value of a wide type
MaxTextOf(t) ==
  IF t = "u64" THEN MaxU64Text ELSE IF t = "i128" THEN MaxI128Text ELSE MaxU128Text

\* the text spells a value of the type: digits after an optional "+" that
\* do not exceed the type's maximum or, for the signed type, digits after
\* "-" that do not exceed the magnitude of its minimum
ParseableAs(t, type) ==
  IF type = "i128" /\ t # <<>> /\ t[1] = "-"
  THEN /\ Len(t) > 1
       /\ \A i \in 2..Len(t) : t[i] \in {DecDigits[k] : k \in 1..10}
       /\ NumeralAtMost(StripZeros(Tail(t)), AboveI128Text)
  ELSE /\ IsNumeral(t)
       /\ NumeralAtMost(StripZeros(StripPlus(t)), MaxTextOf(type))

\* C17: for every value v of u64, i128 and u128, decoding the string-scalar
\* encoding of v gives v, at 0, at the maximum of each type and at the
\* minimum of the signed type too; a wire value is decoded exactly when it
\* is a JSON string that spells a value of the type, so text with
\* non-digits or beyond the type's range fails instead of wrapping or
\* saturating.
C17_WideIntegerRoundTrip ==
  (ty \in WideTypes /\ recovered # NoValue) =>
    /\ value # NoValue => (encoded.t = "str" /\ recovered = Ok(value))
    /\ recovered.ok <=> (encoded.t = "str" /\ ParseableAs(encoded.s, ty))
    /\ recovered.ok => Len(recovered.v) = ScalarWidth(ty)
    /\ encoded = JStr(MaxTextOf(ty)) =>
         recovered = Ok(IF ty = "i128" THEN MaxI128 ELSE MaxUnsigned(ScalarWidth(ty)))
    /\ (ty = "i128" /\ encoded = JStr(MinI128Text)) => recovered = Ok(MinI128)
    /\ encoded \in {JStr(ZeroText), JStr(MinusZeroText)} =>
         (recovered.ok => recovered.v = Zeros(ScalarWidth(ty)))

C17_Witness ==
  /\ ty = "i128"
  /\ value # NoValue
  /\ value = MinI128
  /\ encoded = JStr(MinI128Text)
  /\ recovered # NoValue
  /\ recovered = Ok(MinI128)

\* the canonical text of an identifier: for an id the decimal numeral
\* without sign or leading zeros that reads back as the id, for an address
\* the base58 text that reads back as the address
IsCanonicalText(t, x, w) ==
  IF x.tag = "Id"
  THEN /\ IsNumeral(t)
       /\ StripZeros(t) = t
       /\ ParseUnsigned(t, w) = Ok(x.id)
  ELSE /\ Len(t) <= MAX_BASE58_LEN
       /\ PubkeyFromStr(t) = Ok(x.address)

\* C18: encoding an identifier of any of the three families emits a bare
\* JSON string, neither an object nor a tagged value, that holds the
\* canonical text of the inner value (decimal for Id, address text for
\* Address), and the text Display gives for query strings is that same text.
C18_IdentifierIsBareCanonicalString ==
  (identifier # NoValue /\ wire # NoValue) =>
    /\ wire.t = "str"
    /\ IsCanonicalText(wire.s, identifier, IdWidth(family))
    /\ IdentifierToString(identifier) = wire.s
    /\ identifier = Id(Unsigned(7, IdWidth(family))) => wire = JStr(SevenText)
    /\ identifier = Id(MaxUnsigned(U32Bytes)) => wire = JStr(MaxU32Text)
    /\ identifier = Id(MaxUnsigned(U64Bytes)) => wire = JStr(MaxU64Text)
    /\ identifier = Address(KeyA) => wire = JStr(KeyAText)
    /\ identifier = Address(SystemProgram) => wire = JStr(SystemProgramText)

C18_Witness ==
  /\ family = "ExchangeIdentifier"
  /\ identifier = Address(KeyA)
  /\ wire = JStr(KeyAText)
  /\ IdentifierToString(identifier) = KeyAText

ClosePositionMethods ==
  {"get_close_position_transaction", "get_close_position_instructions"}

\* the size deltas a modify-position call may be given to close a position
ClosingSizeDeltas == SizeDeltas \cup {Zeros(I128Bytes)}

\* the request of the modify-position method of the same artifact kind, for
\* the arguments of a close-position call and a size delta
ModifyPositionRequest(m, self, a, size_delta) ==
  IF m = "get_close_position_transaction"
  THEN get_modify_position_transaction_request(
         self, a.owner, a.margin_account_id, a.market_id, size_delta, a.slippage_setting)
  ELSE get_modify_position_instructions_request(
         self, a.owner, a.margin_account_id, a.market_id, size_delta, a.slippage_setting)

\* the members of a JSON object but those with a name
WithoutMember(obj, name) ==
  SelectSeq(obj.m, LAMBDA member : member[1] # <<name>>)

\* C19, as stated: a close-position call produces the request that a
\* modify-position call with the position-zeroing size delta would produce,
\* for the same owner, margin account, market and slippage setting.
C19_CloseIsModifyRequest ==
  (pc = "awaiting" /\ method \in ClosePositionMethods) =>
    \E size_delta \in ClosingSizeDeltas :
      request = ModifyPositionRequest(method, client, args[2], size_delta)

\* C19, amended: a close-position call posts to its own close-position path
\* the body a modify-position call for the same owner, margin account,
\* market and slippage setting would post, less the size_delta member: the
\* request carries no size delta at all, whatever delta the modify call is
\* given.
C19_CloseIsModifyWithoutSizeDelta ==
  (pc = "awaiting" /\ method \in ClosePositionMethods) =>
    /\ MembersNamed(request.json, {"size_delta"}) = {}
    /\ request.url[2] = IF method = "get_close_position_transaction"
                        THEN "/close-position-transaction"
                        ELSE "/close-position-instructions"
    /\ \A size_delta \in ClosingSizeDeltas :
         LET modify == ModifyPositionRequest(method, client, args[2], size_delta)
         IN  /\ request.http = modify.http
             /\ request.url[1] = modify.url[1]
             /\ request.url[2] # modify.url[2]
             /\ MembersNamed(modify.json, {"size_delta"}) # {}
             /\ request.json.m = WithoutMember(modify.json, "size_delta")

C19_Witness ==
  /\ pc = "awaiting"
  /\ method = "get_close_position_transaction"
  /\ request.http = "POST"
  /\ request.url[2] = "/close-position-transaction"
  /\ MembersNamed(request.json, {"size_delta"}) = {}
  /\ MembersNamed(request.json, {"acceptable_price"}) = {JStr(MaxU64Text)}

\* the endpoint table: the HTTP method and the path of every client method
EndpointOf(m) ==
  CASE m = "get_exchange" -> <<"GET", "/exchange">>
    [] m = "get_exponents" -> <<"GET", "/exponents">>
    [] m \in {"get_market_ids", "get_market_ids_map", "get_market_addresses"} ->
         <<"GET", "/market-ids">>
    [] m \in {"get_margin_account", "get_margin_account_from_id",
              "get_margin_account_from_address"} -> <<"GET", "/margin-account">>
    [] m = "get_unhealthy_margin_accounts" -> <<"GET", "/unhealthy-margin-accounts">>
    [] m \in {"get_market", "get_market_from_id", "get_market_from_address"} ->
         <<"GET", "/market">>
    [] m = "get_margin_accounts" -> <<"POST", "/margin-accounts">>
    [] m \in {"get_markets", "get_markets_from_addresses", "get_markets_from_ids"} ->
         <<"POST", "/markets">>
    [] m = "get_modify_position_quote" -> <<"POST", "/modify-position-quote">>
    [] m = "get_create_margin_account_transaction" ->
         <<"POST", "/create-margin-account-transaction">>
    [] m = "get_create_margin_account_instructions" ->
         <<"POST", "/create-margin-account-instructions">>
    [] m = "get_close_margin_account_transaction" ->
         <<"POST", "/close-margin-account-transaction">>
    [] m = "get_close_margin_account_instructions" ->
         <<"POST", "/close-margin-account-instructions">>
    [] m = "get_deposit_margin_transaction" -> <<"POST", "/deposit-margin-transaction">>
    [] m = "get_deposit_margin_instructions" -> <<"POST", "/deposit-margin-instructions">>
    [] m = "get_withdraw_margin_transaction" -> <<"POST", "/withdraw-margin-transaction">>
    [] m = "get_withdraw_margin_instructions" -> <<"POST", "/withdraw-margin-instructions">>
    [] m = "get_modify_position_transaction" -> <<"POST", "/modify-position-transaction">>
    [] m = "get_modify_position_instructions" -> <<"POST", "/modify-position-instructions">>
    [] m = "get_close_position_transaction" -> <<"POST", "/close-position-transaction">>
    [] m = "get_close_position_instructions" -> <<"POST", "/close-position-instructions">>
    [] m = "get_liquidate_transaction" -> <<"POST", "/liquidate-transaction">>
    [] m = "get_liquidate_instructions" -> <<"POST", "/liquidate-instructions">>

AllTransactionMethods ==
  {"get_create_margin_account_transaction", "get_close_margin_account_transaction",
   "get_deposit_margin_transaction", "get_withdraw_margin_transaction",
   "get_modify_position_transaction", "get_close_position_transaction",
   "get_liquidate_transaction"}

AllInstructionsMethods ==
  {"get_create_margin_account_instructions", "get_close_margin_account_instructions",
   "get_deposit_margin_instructions", "get_withdraw_margin_instructions",
   "get_modify_position_instructions", "get_close_position_instructions",
   "get_liquidate_instructions"}

\* C20: every method sends its request to the path of the endpoint table for
\* its name and artifact kind, under the base url, with the declared HTTP
\* method (GET with a query string and no body, POST with a JSON body); a
\* *_transaction method returns the transaction response as decoded, and an
\* *_instructions method decodes the internal instruction response and
\* returns its conversion.
C20_EndpointTable ==
  /\ pc = "awaiting" =>
       /\ request.http = EndpointOf(method)[1]
       /\ request.url = <<client.base_url, EndpointOf(method)[2]>>
       /\ request.http = "GET" <=> request.json = NoValue
  /\ (pc = "done" /\ decoded.ok) =>
       /\ method \in AllTransactionMethods =>
            /\ "transaction" \in DOMAIN decoded.v
            /\ MembersNamed(response.body.doc, {"transaction"}) # {}
            /\ result = decoded
       /\ method \in AllInstructionsMethods =>
            /\ "instructions" \in DOMAIN decoded.v
            /\ MembersNamed(response.body.doc, {"instructions"}) # {}
            /\ result.ok
            /\ result.v = IF method = "get_create_margin_account_instructions"
                          THEN CreateMarginAccountInstructionsResponseFrom(decoded.v)
                          ELSE InstructionInfoFrom(decoded.v)

C20_Witness ==
  /\ pc = "done"
  /\ method = "get_liquidate_instructions"
  /\ decoded.ok
  /\ result.ok
  /\ Len(result.v.instructions.v3_instructions) > 0

\* the answer came with a 2xx status and a JSON document as its body
SuccessDocument ==
  /\ response.sent
  /\ is_success(response.status)
  /\ response.body.kind = "json"

\* the first of Ids, Addresses, Map that the document decodes as
FirstVariantOf(doc) ==
  LET ids       == Deserialize(TVec(TUnsigned(U32Bytes)), doc)
      addresses == pubkey_vec_deserialize(doc)
      map       == pubkey_values_map_deserialize(doc)
  IN  IF ids.ok THEN Ok([variant |-> "Ids", v |-> ids.v])
      ELSE IF addresses.ok THEN Ok([variant |-> "Addresses", v |-> addresses.v])
      ELSE IF map.ok THEN Ok([variant |-> "Map", v |-> map.v])
      ELSE Err(ReqwestError("decode"))

\* C21: the market identifier response is decoded as the first of Ids,
\* Addresses, Map that matches the document, whatever kind was requested;
\* so the empty JSON array always decodes as Ids with no element:
\* get_market_ids returns the empty list, and get_market_addresses (as
\* get_market_ids_map) returns MarketIdsResponse of its own kind, not the
\* empty address list.
C21_FirstMatchingVariantWins ==
  (pc = "done" /\ method \in MarketIdsMethods /\ SuccessDocument) =>
    /\ decoded = FirstVariantOf(response.body.doc)
    /\ response.body.doc = JArr(<<>>) =>
         /\ decoded = Ok([variant |-> "Ids", v |-> <<>>])
         /\ method = "get_market_ids" => result = Ok(<<>>)
         /\ method = "get_market_addresses" =>
              result = Err(MarketIdsResponseError("Addresses"))
         /\ method = "get_market_ids_map" =>
              result = Err(MarketIdsResponseError("Map"))

\* get_market_addresses answered with the empty array
C21_Witness ==
  /\ pc = "done"
  /\ method = "get_market_addresses"
  /\ SuccessDocument
  /\ response.body.doc = JArr(<<>>)
  /\ decoded.ok
  /\ decoded.v.variant = "Ids"
  /\ ~result.ok
  /\ result.e = MarketIdsResponseError("Addresses")

\* the answer came with a status outside 2xx and a body whose read fails
NonSuccessUnreadable ==
  /\ response.sent
  /\ ~is_success(response.status)
  /\ response.body.kind = "unreadable"

\* C22: on a non-success status the call always ends with the Request error
\* carrying that status, also when the read of the body fails: the failure of
\* the read is not returned as a transport (reqwest) error, and the body text
\* of the Request error is then the empty string.
C22_UnreadableBodyIsEmptyText ==
  (pc = "done" /\ response.sent /\ ~is_success(response.status)) =>
    /\ ~result.ok
    /\ result.e.kind # "Reqwest"
    /\ result.e.kind = "Request"
    /\ result.e.status = response.status
    /\ NonSuccessUnreadable =>
         /\ result.e.body = TextBody(<<>>)
         /\ Len(result.e.body.s) = 0

\* 404 with a body that cannot be read
C22_Witness ==
  /\ pc = "done"
  /\ NonSuccessUnreadable
  /\ response.status = 404
  /\ response_text(response) = Err("body")
  /\ result = Err(RequestError(404, TextBody(<<>>)))

====
